---- MODULE Spec2Model ----
(***************************************************************************)
(* The transaction store of the wdmmg backend (backend/src/store.rs and    *)
(* the request handlers of backend/src/handlers): two collections, current *)
(* and all, each behind its own mutex, mutated by create, bulk import and  *)
(* memo update, and serialized to two files after every mutation.          *)
(*                                                                         *)
(* Every critical section (one mutex guard's scope) is one atomic step; a  *)
(* task's steps interleave with the other tasks' steps at every await and  *)
(* between two critical sections.                                          *)
(***************************************************************************)
EXTENDS Integers, Sequences, FiniteSets, Bags, TLC

(* ------------------------------ bounds --------------------------------- *)

\* Timestamps are the instants 1..MaxTs.
MaxTs == 3
\* A CSV body holds at most MaxBatch data rows.
MaxBatch == 2
\* The store is followed through at most MaxWork units of mutation: one per
\* historical entry appended, one per memo overwritten, one per import of an
\* empty batch.
MaxWork == 3
\* In the concurrent specification mutating requests are accepted until
\* MaxConcWork units of mutation have been applied.
MaxConcWork == 3

Tasks == {"t1", "t2", "t3"}
Accounts == {"acc1", "acc2"}
Timestamps == 1..MaxTs
\* Decimal amounts, as multiples of 1/256 (exact in f64, as is their product
\* with 100.0): 31/256 = 0.12109375, 32/256 = 0.125, 33/256 = 0.12890625.
Amounts == {31, 32, 33}
\* The amounts of CSV rows and of memo-update queries.
CsvAmounts == {31}
Currencies == {"USD"}
Payees == {"shop"}

(* ------------------------------ Option --------------------------------- *)

None == <<>>
Some(x) == <<x>>

NewMemos == {None, Some("memo")}

(* ------------------------------ types.rs ------------------------------- *)

TransactionId(timestamp, amount_cents, currency, payee) ==
    [timestamp |-> timestamp, amount_cents |-> amount_cents,
     currency |-> currency, payee |-> payee]

\* An entry that names the first account whatever account it is stored under.
CurrentTransactionOfFirstAccount(account_id, id) ==
    [account_id |-> "acc1", id |-> id]

CurrentTransaction(account_id, id) == [account_id |-> account_id, id |-> id]

HistoricalTransaction(account_id, id, memo) ==
    [account_id |-> account_id, id |-> id, memo |-> memo]

CreateTransactionRequest ==
    [account_id : Accounts, timestamp : Timestamps, payee : Payees,
     amount : Amounts, currency : Currencies]

(* --------------------------- amount rounding --------------------------- *)

\* f64::round of n/d (d > 0): to the nearest integer, ties away from zero.
Round(n, d) ==
    LET a == IF n < 0 THEN -n ELSE n
        q == (2 * a + d) \div (2 * d)
    IN  IF n < 0 THEN -q ELSE q

\* (amount * 100.0).round() as i64, for an amount given in 1/256 units.
AmountCents(amount) == Round(amount * 100, 256)

(* -------------------------------- f64 ---------------------------------- *)

\* A finite, normal f64: its sign, its 53-bit significand as three limbs of 20
\* bits (the least significant first) and the binary exponent of the
\* significand's last bit; the value is (limbs[1] + limbs[2] * 2^20 +
\* limbs[3] * 2^40) * 2^exponent.
F64(negative, limbs, exponent) ==
    [negative |-> negative, limbs |-> limbs, exponent |-> exponent]

Limb == 2^20

\* The amounts of the requests, as the text of a JSON number, a CSV field or
\* a query parameter.
AmountTexts ==
    {"10.005", "10.004999", "-10.005", "1.005",
     "-1.005", "0.285", "2.675", "0.125",
     "-0.125", "0.12109375", "0.12890625", "-0.12890625"}

\* The f64 nearest to the decimal text, which serde_json (create), the csv
\* reader (bulk import) and str::parse (update_memo) all yield for these texts.
ParseF64(text) ==
    CASE text = "10.005" -> F64(FALSE, <<587203, 587202, 5122>>, -49)
      [] text = "10.004999" -> F64(FALSE, <<722561, 586665, 5122>>, -49)
      [] text = "-10.005" -> F64(TRUE, <<587203, 587202, 5122>>, -49)
      [] text = "1.005" -> F64(FALSE, <<503316, 503316, 4116>>, -52)
      [] text = "-1.005" -> F64(TRUE, <<503316, 503316, 4116>>, -52)
      [] text = "0.285" -> F64(FALSE, <<461373, 461373, 4669>>, -54)
      [] text = "2.675" -> F64(FALSE, <<419430, 419430, 5478>>, -51)
      [] text = "0.125" -> F64(FALSE, <<0, 0, 4096>>, -55)
      [] text = "-0.125" -> F64(TRUE, <<0, 0, 4096>>, -55)
      [] text = "0.12109375" -> F64(FALSE, <<0, 0, 7936>>, -56)
      [] text = "0.12890625" -> F64(FALSE, <<0, 0, 4224>>, -55)
      [] text = "-0.12890625" -> F64(TRUE, <<0, 0, 4224>>, -55)

\* The texts that are multiples of 1/256, with their value in 1/256 units.
DyadicUnits ==
    ("0.125" :> 32) @@ ("-0.125" :> -32) @@ ("0.12109375" :> 31)
      @@ ("0.12890625" :> 33) @@ ("-0.12890625" :> -33)

\* amount * 100.0: the exact product of the significand and 100 has 59 or 60
\* bits; it is rounded to 53 bits, to nearest and ties to even.
F64Mul100(x) ==
    LET p0 == x.limbs[1] * 100
        p1 == x.limbs[2] * 100 + p0 \div Limb
        p2 == x.limbs[3] * 100 + p1 \div Limb
        r0 == p0 % Limb
        r1 == p1 % Limb
        r2 == p2
        k == IF r2 >= 2^19 THEN 7 ELSE 6
        rest == r0 % 2^k
        half == 2^(k - 1)
        q0 == r0 \div 2^k + (r1 % 2^k) * 2^(20 - k)
        q1 == r1 \div 2^k + (r2 % 2^k) * 2^(20 - k)
        q2 == r2 \div 2^k
        up == IF rest > half \/ (rest = half /\ q0 % 2 = 1) THEN 1 ELSE 0
        s0 == q0 + up
        s1 == q1 + s0 \div Limb
        s2 == q2 + s1 \div Limb
    IN  IF s2 = 2^13
        THEN F64(x.negative, <<0, 0, 2^12>>, x.exponent + k + 1)
        ELSE F64(x.negative, <<s0 % Limb, s1 % Limb, s2>>, x.exponent + k)

\* f64::round() as i64, for a value below 2^32 with at least 21 fraction bits
\* in its significand: the integer part plus the first fraction bit, so a
\* fraction of one half or more moves away from zero.
F64Round(y) ==
    LET s == -y.exponent
        i == IF s >= 41
             THEN IF s - 40 <= 13 THEN y.limbs[3] \div 2^(s - 40) ELSE 0
             ELSE y.limbs[3] * 2^(40 - s) + y.limbs[2] \div 2^(s - 20)
        h == IF s >= 41
             THEN IF s - 41 <= 13 THEN (y.limbs[3] \div 2^(s - 41)) % 2 ELSE 0
             ELSE (y.limbs[2] \div 2^(s - 21)) % 2
    IN  IF y.negative THEN -(i + h) ELSE i + h

\* store.rs line 94 and handlers/create_transaction.rs line 12.
CreateAmountCents(amount) == F64Round(F64Mul100(amount))

\* A CSV path that converts without rounding: `as i64` drops the fraction.
CsvAmountCentsTruncated(amount) ==
    LET y == F64Mul100(amount)
        s == -y.exponent
        i == IF s >= 41
             THEN IF s - 40 <= 13 THEN y.limbs[3] \div 2^(s - 40) ELSE 0
             ELSE y.limbs[3] * 2^(40 - s) + y.limbs[2] \div 2^(s - 20)
    IN  IF y.negative THEN -i ELSE i

\* utils.rs line 44.
CsvAmountCents(amount) == F64Round(F64Mul100(amount))

\* handlers/update_memo.rs line 23.
MemoAmountCents(amount) == F64Round(F64Mul100(amount))

(* ------------------------- HashMap and Vec ----------------------------- *)

EmptyMap == <<>>

\* Variants of contains_key: one that never finds the key, and one that
\* compares the keys by their timestamps only.
ContainsKeyNever(m, k) == FALSE

ContainsKeyByTimestamp(m, k) == \E x \in DOMAIN m : x.timestamp = k.timestamp

ContainsKey(m, k) == k \in DOMAIN m

\* HashMap::insert: a new key is added, an existing key's value is replaced.
Insert(m, k, v) == [x \in DOMAIN m \cup {k} |-> IF x = k THEN v ELSE m[x]]

\* HashMap::entry(k).or_insert_with(|| d): the map with k bound (to d if new).
EntryOrInsert(m, k, d) == IF k \in DOMAIN m THEN m ELSE Insert(m, k, d)

\* HashMap::retain with the predicate "k is in keep".
RetainKeys(m, keep) == [x \in DOMAIN m \cap keep |-> m[x]]

RECURSIVE InsertAll(_, _)
\* for (id, current, _) in &new_transactions { map.insert(id, current) }
InsertAll(m, txs) ==
    IF txs = <<>> THEN m
    ELSE InsertAll(Insert(m, Head(txs)[1], Head(txs)[2]), Tail(txs))

(* ------------------------------ state ---------------------------------- *)

VARIABLES
    current,       \* account_id -> (TransactionId -> CurrentTransaction)
    all,           \* account_id -> sequence of HistoricalTransaction
    file_current,  \* content of current_transactions.json, or NoFile
    file_all,      \* content of all_transactions.json, or NoFile
    pc,            \* per task: the step it executes next
    frame,         \* per task: the locals of the operation in progress
    ret,           \* per task: what the operation returned
    work,          \* the units of mutation applied so far
    before,        \* per task: the store as its operation found it
    overlap,       \* per task: whether a bulk import ran while its own did
    met            \* per task: the tasks whose operation ran during its own

vars == <<current, all, file_current, file_all, pc, frame, ret, work,
          before, overlap, met>>

NoFile == [exists |-> FALSE]
File(text) == [exists |-> TRUE, text |-> text]

NoId == [none |-> TRUE]

\* op, account_id, id, rows, memo: the call; found: what contains_key
\* answered; entries: how many historical entries of the account had the id at
\* the call and recorded: how many at the return of a create;
\* new_transactions, errors, imported: the import's locals; json:
\* the text save_to_files is about to write; saves: the calls of
\* save_to_files; warned: whether the save's failure was logged.
NoFrame ==
    [op |-> "none", account_id |-> "", id |-> NoId, rows |-> <<>>,
     found |-> FALSE, entries |-> 0, recorded |-> 0, new_transactions |-> <<>>,
     errors |-> <<>>, memo |-> None, imported |-> 0, json |-> None, saves |-> 0, amount |-> "",
     warned |-> FALSE, holds |-> {}, call |-> None]

NoRet == [status |-> "none"]

\* The number of entries of account_id in al that have the id.
Occurrences(al, account_id, id) ==
    IF account_id \in DOMAIN al
    THEN Cardinality({i \in DOMAIN al[account_id] : al[account_id][i].id = id})
    ELSE 0

\* A mutation of n units is within the bound.
Spend(n) == work + n <= MaxWork /\ work' = work + n

Quiescent == \A t \in Tasks : pc[t] = "idle"

\* The tasks inside an operation (called and not yet returned).
InProgress == {t \in Tasks : pc[t] \notin {"idle", "done"}}

NoBefore == [taken |-> FALSE]

Returned == "returned"

BulkOps == {"bulk_import_handler", "bulk_import_transactions"}

\* Task t is called with operation op. While the operation runs with no other
\* operation in progress, before[t] holds the store as it found it; overlap[t]
\* tells whether a bulk import was in progress at some time during it, met[t]
\* which tasks' present operations were in progress at some time during it
\* (Returned standing for the operations whose result has been taken since).
Begin(t, op) ==
    /\ pc[t] = "idle"
    /\ before' = [u \in Tasks |->
                    IF u = t
                    THEN IF InProgress = {}
                         THEN [taken |-> TRUE, current |-> current, all |-> all,
                               file_current |-> file_current,
                               file_all |-> file_all]
                         ELSE NoBefore
                    ELSE IF u \in InProgress THEN NoBefore ELSE before[u]]
    /\ overlap' = [u \in Tasks |->
                     IF u = t THEN \E v \in InProgress : frame[v].op \in BulkOps
                     ELSE IF u \in InProgress THEN overlap[u] \/ op \in BulkOps
                     ELSE overlap[u]]
    /\ met' = [u \in Tasks |->
                 IF u = t THEN InProgress
                 ELSE IF u \in InProgress THEN met[u] \cup {t}
                 ELSE met[u]]

Init ==
    /\ current = EmptyMap
    /\ all = EmptyMap
    /\ file_current = NoFile
    /\ file_all = NoFile
    /\ pc = [t \in Tasks |-> "idle"]
    /\ frame = [t \in Tasks |-> NoFrame]
    /\ ret = [t \in Tasks |-> NoRet]
    /\ work = 0
    /\ before = [t \in Tasks |-> NoBefore]
    /\ overlap = [t \in Tasks |-> FALSE]
    /\ met = [t \in Tasks |-> {}]

(* --------------------------- serialization ----------------------------- *)

\* serde_json::to_string_pretty of the current map: serde_json writes map keys
\* as JSON strings only, and TransactionId is a struct, so the first key of a
\* non-empty account bucket ends the serialization with "key must be a string".
\* The outer keys are Strings; an empty bucket has no key to write.
SerializeCurrent(cur) ==
    IF \E a \in DOMAIN cur : DOMAIN cur[a] # {}
    THEN [ok |-> FALSE]
    ELSE [ok |-> TRUE, text |-> [a \in DOMAIN cur |-> "{}"]]

\* serde_json::to_string_pretty of the historical map: String keys, arrays of
\* structs, memo None as null.
SerializeAll(al) ==
    [ok |-> TRUE,
     text |-> [a \in DOMAIN al |->
                 [i \in 1..Len(al[a]) |->
                    [account_id |-> al[a][i].account_id,
                     id |-> al[a][i].id,
                     memo |-> IF al[a][i].memo = None THEN "null"
                              ELSE al[a][i].memo[1]]]]]

(* ------------------------------ results -------------------------------- *)

\* A response whose duplicates field counts the insert calls of a bulk import
\* that met a key of their own batch.
OkResultCountsDuplicates(f) ==
    CASE f.op = "create" ->
           [status |-> "Ok", value |-> CurrentTransaction(f.account_id, f.id)]
      [] f.op \in {"bulk_import_handler", "bulk_import_transactions"} ->
           [status |-> "Ok",
            value |-> [imported |-> f.imported,
                       duplicates |->
                         Len(f.new_transactions)
                           - Cardinality({f.new_transactions[i][1] :
                                            i \in DOMAIN f.new_transactions}),
                       errors |-> f.errors]]
      [] OTHER -> [status |-> "Ok"]

\* What the operation of frame f returns once save_to_files has been tried:
\* Ok(current_transaction), Ok(BulkImportResponse), Ok(()).
OkResult(f) ==
    CASE f.op = "create" ->
           [status |-> "Ok", value |-> CurrentTransaction(f.account_id, f.id)]
      [] f.op \in {"bulk_import_handler", "bulk_import_transactions"} ->
           [status |-> "Ok",
            value |-> [imported |-> f.imported, duplicates |-> 0, errors |-> f.errors]]
      [] OTHER -> [status |-> "Ok"]

Err(status) == [status |-> status]

(* --------------------------- save_to_files ----------------------------- *)

\* save_to_files returned (Ok or Err) to the mutation that called it:
\* if let Err(e) = self.save_to_files().await { eprintln!(..) }  Ok(..)
\* A return that hands the failure of save_to_files to the caller.
SaveReturnsError(t, f, failed) ==
    /\ frame' = [frame EXCEPT ![t] =
                   [f EXCEPT !.json = None, !.warned = failed,
                             !.recorded = IF f.op = "create"
                                          THEN Occurrences(all, f.account_id, f.id)
                                          ELSE 0]]
    /\ ret' = [ret EXCEPT ![t] = IF failed THEN Err("Internal") ELSE OkResult(f)]
    /\ pc' = [pc EXCEPT ![t] = "done"]

SaveReturns(t, f, failed) ==
    /\ frame' = [frame EXCEPT ![t] =
                   [f EXCEPT !.json = None, !.warned = failed,
                             !.recorded = IF f.op = "create"
                                          THEN Occurrences(all, f.account_id, f.id)
                                          ELSE 0]]
    /\ ret' = [ret EXCEPT ![t] = OkResult(f)]
    /\ pc' = [pc EXCEPT ![t] = "done"]

\* let current_json = { lock current; to_string_pretty(&*current)? };
SaveSerializeCurrent(t) ==
    /\ pc[t] = "save_current"
    /\ LET r == SerializeCurrent(current)
           f == [frame[t] EXCEPT !.saves = @ + 1]
       IN  IF r.ok
           THEN /\ frame' = [frame EXCEPT ![t] = [f EXCEPT !.json = Some(r.text)]]
                /\ pc' = [pc EXCEPT ![t] = "write_current"]
                /\ ret' = ret
           ELSE SaveReturns(t, f, TRUE)
    /\ UNCHANGED <<current, all, file_current, file_all, work, before, overlap, met>>

\* A write that serializes current again at the time of the write.
SaveWriteCurrentFresh(t) ==
    /\ pc[t] = "write_current"
    /\ \/ /\ SerializeCurrent(current).ok
          /\ file_current' = File(SerializeCurrent(current).text)
          /\ frame' = [frame EXCEPT ![t].json = None]
          /\ pc' = [pc EXCEPT ![t] = "save_all"]
          /\ ret' = ret
       \/ /\ file_current' = file_current
          /\ SaveReturns(t, frame[t], TRUE)
    /\ UNCHANGED <<current, all, file_all, work, before, overlap, met>>

\* fs::write("current_transactions.json", current_json).await?
SaveWriteCurrent(t) ==
    /\ pc[t] = "write_current"
    /\ \/ /\ file_current' = File(frame[t].json[1])
          /\ frame' = [frame EXCEPT ![t].json = None]
          /\ pc' = [pc EXCEPT ![t] = "save_all"]
          /\ ret' = ret
       \/ \* the write fails
          /\ file_current' = file_current
          /\ SaveReturns(t, frame[t], TRUE)
    /\ UNCHANGED <<current, all, file_all, work, before, overlap, met>>

\* let all_json = { lock all; to_string_pretty(&*all)? };
SaveSerializeAll(t) ==
    /\ pc[t] = "save_all"
    /\ LET r == SerializeAll(all) IN
         IF r.ok
         THEN /\ frame' = [frame EXCEPT ![t].json = Some(r.text)]
              /\ pc' = [pc EXCEPT ![t] = "write_all"]
              /\ ret' = ret
         ELSE SaveReturns(t, frame[t], TRUE)
    /\ UNCHANGED <<current, all, file_current, file_all, work, before, overlap, met>>

\* fs::write("all_transactions.json", all_json).await?
SaveWriteAll(t) ==
    /\ pc[t] = "write_all"
    /\ \/ /\ file_all' = File(frame[t].json[1])
          /\ SaveReturns(t, frame[t], FALSE)
       \/ \* the write fails
          /\ file_all' = file_all
          /\ SaveReturns(t, frame[t], TRUE)
    /\ UNCHANGED <<current, all, file_current, work, before, overlap, met>>

(* -------------------------- create_transaction ------------------------- *)

\* The TransactionId a create request names.
RequestId(request) ==
    TransactionId(request.timestamp, AmountCents(request.amount),
                  request.currency, request.payee)

\* A variant of the critical section on current that checks the key and
\* leaves the insert out.
CreateTransactionChecksOnly(t, request) ==
    LET account_id == request.account_id
        transaction_id == RequestId(request)
        cur == EntryOrInsert(current, account_id, EmptyMap)
        found == ContainsKey(cur[account_id], transaction_id)
        entries == Occurrences(all, account_id, transaction_id)
        f == [NoFrame EXCEPT !.op = "create", !.account_id = account_id,
                             !.id = transaction_id, !.found = found,
                             !.entries = entries, !.recorded = entries]
    IN  /\ Begin(t, "create")
        /\ frame' = [frame EXCEPT ![t] = f]
        /\ current' = cur
        /\ IF found
           THEN /\ ret' = [ret EXCEPT ![t] = Err("Conflict")]
                /\ pc' = [pc EXCEPT ![t] = "done"]
                /\ work' = work
           ELSE /\ Spend(1)
                /\ ret' = ret
                /\ pc' = [pc EXCEPT ![t] = "create_all"]
        /\ UNCHANGED <<all, file_current, file_all>>

\* Lines 92-125: the id is built, then under the current lock the account's
\* bucket is looked up (created if absent), the key is checked and inserted.
CreateTransaction(t, request) ==
    LET account_id == request.account_id
        transaction_id == RequestId(request)
        cur == EntryOrInsert(current, account_id, EmptyMap)
        found == ContainsKey(cur[account_id], transaction_id)
        entries == Occurrences(all, account_id, transaction_id)
        f == [NoFrame EXCEPT !.op = "create", !.account_id = account_id,
                             !.id = transaction_id, !.found = found,
                             !.entries = entries, !.recorded = entries]
    IN  /\ Begin(t, "create")
        /\ frame' = [frame EXCEPT ![t] = f]
        /\ IF found
           THEN /\ current' = cur
                /\ ret' = [ret EXCEPT ![t] = Err("Conflict")]
                /\ pc' = [pc EXCEPT ![t] = "done"]
                /\ work' = work
           ELSE /\ Spend(1)
                /\ current' = [cur EXCEPT ![account_id] =
                                 Insert(@, transaction_id,
                                        CurrentTransaction(account_id, transaction_id))]
                /\ ret' = ret
                /\ pc' = [pc EXCEPT ![t] = "create_all"]
        /\ UNCHANGED <<all, file_current, file_all>>

\* A variant of the critical section on all that replaces the whole map by
\* the account's new sequence.
CreateAllAlone(t) ==
    /\ pc[t] = "create_all"
    /\ LET account_id == frame[t].account_id
           al == EntryOrInsert(all, account_id, <<>>)
       IN  all' = [a \in {account_id} |->
                     Append(al[a], HistoricalTransaction(a, frame[t].id, None))]
    /\ pc' = [pc EXCEPT ![t] = "save_current"]
    /\ UNCHANGED <<current, file_current, file_all, frame, ret, work, before, overlap, met>>

\* Variants of the critical section on all: one that creates the account's
\* sequence but pushes nothing, and one that pushes the entry twice.
CreateAllPushesNothing(t) ==
    /\ pc[t] = "create_all"
    /\ all' = EntryOrInsert(all, frame[t].account_id, <<>>)
    /\ pc' = [pc EXCEPT ![t] = "save_current"]
    /\ UNCHANGED <<current, file_current, file_all, frame, ret, work, before, overlap, met>>

CreateAllPushesTwice(t) ==
    /\ pc[t] = "create_all"
    /\ LET account_id == frame[t].account_id
           al == EntryOrInsert(all, account_id, <<>>)
           h == HistoricalTransaction(account_id, frame[t].id, None)
       IN  all' = [al EXCEPT ![account_id] = @ \o <<h, h>>]
    /\ pc' = [pc EXCEPT ![t] = "save_current"]
    /\ UNCHANGED <<current, file_current, file_all, frame, ret, work, before, overlap, met>>

\* Lines 127-132: under the all lock, the historical entry is pushed.
CreateAll(t) ==
    /\ pc[t] = "create_all"
    /\ LET account_id == frame[t].account_id
           al == EntryOrInsert(all, account_id, <<>>)
       IN  all' = [al EXCEPT ![account_id] =
                     Append(@, HistoricalTransaction(account_id, frame[t].id, None))]
    /\ pc' = [pc EXCEPT ![t] = "save_current"]
    /\ UNCHANGED <<current, file_current, file_all, frame, ret, work, before, overlap, met>>

(* ----------------------------- CSV rows -------------------------------- *)

\* The text of a timestamp column: an RFC 3339 instant, or something else.
Rfc3339(instant) == <<"rfc3339", instant>>
NotATimestamp == <<"not a timestamp">>

\* One data row of the CSV body as csv::Reader::deserialize yields it:
\* Err for a row that is no CsvTransaction (malformed), else Ok(CsvTransaction)
\* with the timestamp still a string.
CsvRows ==
    [malformed : {FALSE},
     timestamp : {Rfc3339(i) : i \in Timestamps} \cup {NotATimestamp},
     payee : Payees, amount : CsvAmounts, currency : Currencies]
    \cup {[malformed |-> TRUE]}

CsvBodies == UNION {[1..n -> CsvRows] : n \in 0..MaxBatch}

\* str::parse::<DateTime<Utc>>
ParseTimestamp(text) ==
    IF Len(text) = 2 /\ text[1] = "rfc3339"
    THEN [ok |-> TRUE, value |-> text[2]]
    ELSE [ok |-> FALSE]

\* utils.rs process_csv_transaction: Ok((id, current, historical)) or Err.
ProcessCsvTransaction(csv_transaction, account_id) ==
    LET timestamp == ParseTimestamp(csv_transaction.timestamp) IN
      IF ~timestamp.ok
      THEN [ok |-> FALSE, error |-> "Invalid timestamp format"]
      ELSE LET transaction_id ==
                 TransactionId(timestamp.value, AmountCents(csv_transaction.amount),
                               csv_transaction.currency, csv_transaction.payee)
           IN  [ok |-> TRUE,
                value |-> <<transaction_id,
                            CurrentTransaction(account_id, transaction_id),
                            HistoricalTransaction(account_id, transaction_id, None)>>]

\* A variant of the row's result that tags an error with the row's index
\* among the data rows.
ParseRowTagsIndex(rows, i, account_id) ==
    IF rows[i].malformed
    THEN [ok |-> FALSE, error |-> [row |-> i - 1, what |-> "CSV parsing error"]]
    ELSE LET r == ProcessCsvTransaction(rows[i], account_id) IN
           IF r.ok THEN r
           ELSE [ok |-> FALSE, error |-> [row |-> i - 1, what |-> r.error]]

\* bulk_import.rs lines 20-29: the result of row number i (from 1) of the body;
\* an error is tagged "Row {row_idx + 2}" with row_idx = i - 1.
ParseRow(rows, i, account_id) ==
    IF rows[i].malformed
    THEN [ok |-> FALSE, error |-> [row |-> (i - 1) + 2, what |-> "CSV parsing error"]]
    ELSE LET r == ProcessCsvTransaction(rows[i], account_id) IN
           IF r.ok THEN r
           ELSE [ok |-> FALSE, error |-> [row |-> (i - 1) + 2, what |-> r.error]]

RECURSIVE Successes(_, _, _)
\* The Ok values of rows i.. in row order (partition, then unwrap).
Successes(rows, i, account_id) ==
    IF i > Len(rows) THEN <<>>
    ELSE LET r == ParseRow(rows, i, account_id) IN
           (IF r.ok THEN <<r.value>> ELSE <<>>) \o Successes(rows, i + 1, account_id)

RECURSIVE Failures(_, _, _)
\* The Err values of rows i.. in row order.
Failures(rows, i, account_id) ==
    IF i > Len(rows) THEN <<>>
    ELSE LET r == ParseRow(rows, i, account_id) IN
           (IF r.ok THEN <<>> ELSE <<r.error>>) \o Failures(rows, i + 1, account_id)

(* ----------------------------- bulk import ----------------------------- *)

\* The timestamps of the parsed records.
Dates(new_transactions) ==
    {new_transactions[i][1].timestamp : i \in 1..Len(new_transactions)}

\* min_date, max_date: None for an empty batch.
MinDate(new_transactions) ==
    IF new_transactions = <<>> THEN None
    ELSE Some(CHOOSE d \in Dates(new_transactions) :
                \A e \in Dates(new_transactions) : d <= e)

MaxDate(new_transactions) ==
    IF new_transactions = <<>> THEN None
    ELSE Some(CHOOSE d \in Dates(new_transactions) :
                \A e \in Dates(new_transactions) : d >= e)

\* A variant of the retain predicate that also keeps the ids at the bounds.
OutsideRangeOrAtBound(id, min_date, max_date) ==
    id.timestamp <= min_date \/ id.timestamp >= max_date

\* retain(|id, _| id.timestamp < min_date || id.timestamp > max_date)
OutsideRange(id, min_date, max_date) ==
    id.timestamp < min_date \/ id.timestamp > max_date

\* The account's bucket after the critical section on current: the entries in
\* the batch's date range are removed, then every parsed record is inserted.
ReplaceRange(bucket, new_transactions) ==
    LET min_date == MinDate(new_transactions)
        max_date == MaxDate(new_transactions)
        retained ==
          IF min_date # None /\ max_date # None
          THEN RetainKeys(bucket, {id \in DOMAIN bucket :
                                     OutsideRange(id, min_date[1], max_date[1])})
          ELSE bucket
    IN  InsertAll(retained, new_transactions)

\* A counter that adds one for each key of the batch instead of one for each
\* insert call.
ImportedCountsKeys(new_transactions) ==
    Cardinality({new_transactions[i][1] : i \in DOMAIN new_transactions})

\* let mut imported = 0; for .. in &new_transactions { ..insert(..); imported += 1; }
\* One is added for every call of insert, whether or not the key was there.
Imported(new_transactions) == Len(new_transactions)

\* A critical section that removes the batch's date range from the bucket
\* of every account.
BulkCurrentEvictsEverywhere(t, op, account_id, rows, new_transactions, errors) ==
    LET cur == EntryOrInsert(current, account_id, EmptyMap) IN
      /\ Spend(IF new_transactions = <<>> THEN 1 ELSE Len(new_transactions))
      /\ current' = [a \in DOMAIN cur |->
                       IF a = account_id
                       THEN ReplaceRange(cur[a], new_transactions)
                       ELSE IF new_transactions = <<>> THEN cur[a]
                       ELSE RetainKeys(cur[a],
                              {id \in DOMAIN cur[a] :
                                 OutsideRange(id, MinDate(new_transactions)[1],
                                              MaxDate(new_transactions)[1])})]
      /\ frame' = [frame EXCEPT ![t] =
                     [NoFrame EXCEPT !.op = op, !.account_id = account_id,
                                     !.rows = rows,
                                     !.new_transactions = new_transactions,
                                     !.errors = errors,
                                     !.imported = Len(new_transactions)]]
      /\ ret' = ret
      /\ pc' = [pc EXCEPT ![t] = "bulk_all"]

\* The critical section on current, with imported counted once per insert.
BulkCurrent(t, op, account_id, rows, new_transactions, errors) ==
    LET cur == EntryOrInsert(current, account_id, EmptyMap) IN
      /\ Spend(IF new_transactions = <<>> THEN 1 ELSE Len(new_transactions))
      /\ current' = [cur EXCEPT ![account_id] = ReplaceRange(@, new_transactions)]
      /\ frame' = [frame EXCEPT ![t] =
                     [NoFrame EXCEPT !.op = op, !.account_id = account_id,
                                     !.rows = rows,
                                     !.new_transactions = new_transactions,
                                     !.errors = errors,
                                     !.imported = Imported(new_transactions)]]
      /\ ret' = ret
      /\ pc' = [pc EXCEPT ![t] = "bulk_all"]

\* return Err(ApiError { status: BAD_REQUEST, .. }) before any lock is taken.
BulkRejected(t, op, account_id, rows, errors) ==
    /\ current' = current
    /\ frame' = [frame EXCEPT ![t] =
                   [NoFrame EXCEPT !.op = op, !.account_id = account_id,
                                   !.rows = rows, !.errors = errors]]
    /\ ret' = [ret EXCEPT ![t] = Err("BadRequest")]
    /\ pc' = [pc EXCEPT ![t] = "done"]
    /\ work' = work

\* A variant of the handler that rejects no body.
BulkImportHandlerRejectsNothing(t, account_id, rows) ==
    /\ Begin(t, "bulk_import_handler")
    /\ BulkCurrent(t, "bulk_import_handler", account_id, rows,
                   Successes(rows, 1, account_id), Failures(rows, 1, account_id))
    /\ UNCHANGED <<all, file_current, file_all>>

\* handlers/bulk_import.rs: the rows are parsed, a body with no parsed record
\* and at least one error is rejected, else the batch replaces its date range.
BulkImportHandler(t, account_id, rows) ==
    LET new_transactions == Successes(rows, 1, account_id)
        errors == Failures(rows, 1, account_id)
    IN  /\ Begin(t, "bulk_import_handler")
        /\ IF new_transactions = <<>> /\ errors # <<>>
           THEN BulkRejected(t, "bulk_import_handler", account_id, rows, errors)
           ELSE BulkCurrent(t, "bulk_import_handler", account_id, rows,
                            new_transactions, errors)
        /\ UNCHANGED <<all, file_current, file_all>>

\* The parsed records store.rs is called with, per account.
ParsedBatches ==
    [account_id \in Accounts |->
       {Successes(rows, 1, account_id) :
          rows \in {b \in CsvBodies : Failures(b, 1, account_id) = <<>>}}]

\* The ids a memo update may name.
MemoQueries ==
    [timestamp : Timestamps, payee : Payees, amount : {31, 32},
     currency : Currencies]

\* store.rs bulk_import_transactions: an empty batch is rejected, else the
\* batch replaces its date range; the response carries no errors.
BulkImportTransactions(t, account_id, new_transactions) ==
    /\ Begin(t, "bulk_import_transactions")
    /\ IF new_transactions = <<>>
       THEN BulkRejected(t, "bulk_import_transactions", account_id, <<>>, <<>>)
       ELSE BulkCurrent(t, "bulk_import_transactions", account_id, <<>>,
                        new_transactions, <<>>)
    /\ UNCHANGED <<all, file_current, file_all>>

\* A variant of the critical section on all that replaces the account's
\* sequence by the batch's entries.
BulkAllOverwrites(t) ==
    /\ pc[t] = "bulk_all"
    /\ LET account_id == frame[t].account_id
           al == EntryOrInsert(all, account_id, <<>>)
           pushed == [i \in 1..Len(frame[t].new_transactions) |->
                        frame[t].new_transactions[i][3]]
       IN  all' = [al EXCEPT ![account_id] = pushed]
    /\ pc' = [pc EXCEPT ![t] = "save_current"]
    /\ UNCHANGED <<current, file_current, file_all, frame, ret, work, before,
                   overlap, met>>

\* A push loop that skips a record whose id an earlier record of the batch had.
BulkAllPushesEachIdOnce(t) ==
    /\ pc[t] = "bulk_all"
    /\ LET account_id == frame[t].account_id
           al == EntryOrInsert(all, account_id, <<>>)
           txs == frame[t].new_transactions
           first == SelectSeq([i \in 1..Len(txs) |-> i],
                              LAMBDA i : \A j \in 1..(i - 1) : txs[j][1] # txs[i][1])
           pushed == [k \in 1..Len(first) |-> txs[first[k]][3]]
       IN  all' = [al EXCEPT ![account_id] = @ \o pushed]
    /\ pc' = [pc EXCEPT ![t] = "save_current"]
    /\ UNCHANGED <<current, file_current, file_all, frame, ret, work, before,
                   overlap, met>>

\* Under the all lock, every parsed record's historical entry is pushed, in
\* batch order.
BulkAll(t) ==
    /\ pc[t] = "bulk_all"
    /\ LET account_id == frame[t].account_id
           al == EntryOrInsert(all, account_id, <<>>)
           pushed == [i \in 1..Len(frame[t].new_transactions) |->
                        frame[t].new_transactions[i][3]]
       IN  all' = [al EXCEPT ![account_id] = @ \o pushed]
    /\ pc' = [pc EXCEPT ![t] = "save_current"]
    /\ UNCHANGED <<current, file_current, file_all, frame, ret, work, before,
                   overlap, met>>

(* ------------------------- update_transaction_memo --------------------- *)

\* A search that compares the timestamps of the ids only.
FindIndexByTimestamp(account_transactions, transaction_id) ==
    LET hits == {i \in 1..Len(account_transactions) :
                   account_transactions[i].id.timestamp = transaction_id.timestamp}
    IN  IF hits = {} THEN 0 ELSE CHOOSE i \in hits : \A j \in hits : i <= j

\* A search that returns the last match instead of the first.
FindIndexLast(account_transactions, transaction_id) ==
    LET hits == {i \in 1..Len(account_transactions) :
                   account_transactions[i].id = transaction_id}
    IN  IF hits = {} THEN 0 ELSE CHOOSE i \in hits : \A j \in hits : i >= j

\* iter_mut().find(|t| t.id == transaction_id): the first match's index, or 0.
FindIndex(account_transactions, transaction_id) ==
    LET hits == {i \in 1..Len(account_transactions) :
                   account_transactions[i].id = transaction_id}
    IN  IF hits = {} THEN 0 ELSE CHOOSE i \in hits : \A j \in hits : i <= j

\* An update that takes the entry out of its place and pushes it, with the
\* new memo, at the end.
UpdateTransactionMemoMovesEntry(t, account_id, request, new_memo) ==
    LET transaction_id == RequestId(request)
        found == IF account_id \in DOMAIN all
                 THEN FindIndex(all[account_id], transaction_id) ELSE 0
        f == [NoFrame EXCEPT !.op = "update_memo", !.account_id = account_id,
                             !.id = transaction_id, !.memo = new_memo,
                             !.found = found # 0]
    IN  /\ Begin(t, "update_memo")
        /\ frame' = [frame EXCEPT ![t] = f]
        /\ IF found = 0
           THEN /\ all' = all
                /\ ret' = [ret EXCEPT ![t] = Err("NotFound")]
                /\ pc' = [pc EXCEPT ![t] = "done"]
                /\ work' = work
           ELSE /\ Spend(1)
                /\ all' = [all EXCEPT ![account_id] =
                             SubSeq(@, 1, found - 1) \o SubSeq(@, found + 1, Len(@))
                               \o <<HistoricalTransaction(account_id, transaction_id,
                                                          new_memo)>>]
                /\ ret' = ret
                /\ pc' = [pc EXCEPT ![t] = "save_current"]
        /\ UNCHANGED <<current, file_current, file_all>>

\* handlers/update_memo.rs builds the id from the query parameters (line 23);
\* store.rs lines 216-233: under the all lock the account is looked up, the
\* entry is found and its memo is overwritten.
UpdateTransactionMemo(t, account_id, request, new_memo) ==
    LET transaction_id == RequestId(request)
        found == IF account_id \in DOMAIN all
                 THEN FindIndex(all[account_id], transaction_id) ELSE 0
        f == [NoFrame EXCEPT !.op = "update_memo", !.account_id = account_id,
                             !.id = transaction_id, !.memo = new_memo,
                             !.found = found # 0]
    IN  /\ Begin(t, "update_memo")
        /\ frame' = [frame EXCEPT ![t] = f]
        /\ IF found = 0
           THEN /\ all' = all
                /\ ret' = [ret EXCEPT ![t] = Err("NotFound")]
                /\ pc' = [pc EXCEPT ![t] = "done"]
                /\ work' = work
           ELSE /\ Spend(1)
                /\ all' = [all EXCEPT ![account_id][found].memo = new_memo]
                /\ ret' = ret
                /\ pc' = [pc EXCEPT ![t] = "save_current"]
        /\ UNCHANGED <<current, file_current, file_all>>

(* -------------------------------- reads -------------------------------- *)

RECURSIVE BagOfValues(_, _)
\* The values of map m at the keys ks, as a bag.
BagOfValues(m, ks) ==
    IF ks = {} THEN EmptyBag
    ELSE LET k == CHOOSE x \in ks : TRUE IN
           SetToBag({m[k]}) (+) BagOfValues(m, ks \ {k})

\* A variant of the loop over current.values() that stops after one account.
CurrentValuesOfOne(cur, accounts) ==
    IF accounts = {} THEN EmptyBag
    ELSE LET a == CHOOSE x \in accounts : TRUE IN BagOfValues(cur[a], DOMAIN cur[a])

RECURSIVE CurrentValues(_, _)
\* for transactions in current.values() { extend(transactions.values()) }:
\* the iteration order of a HashMap is arbitrary, so the result is a bag.
CurrentValues(cur, accounts) ==
    IF accounts = {} THEN EmptyBag
    ELSE LET a == CHOOSE x \in accounts : TRUE IN
           BagOfValues(cur[a], DOMAIN cur[a]) (+) CurrentValues(cur, accounts \ {a})

\* What get_current_transactions returns in the state at hand.
ReadCurrent == CurrentValues(current, DOMAIN current)

RECURSIVE ConcatNewestFirst(_, _)
\* A concatenation that walks each account's sequence from its last entry.
ConcatNewestFirst(al, order) ==
    IF order = <<>> THEN <<>>
    ELSE [i \in 1..Len(al[Head(order)]) |->
            al[Head(order)][Len(al[Head(order)]) + 1 - i]]
           \o ConcatNewestFirst(al, Tail(order))

RECURSIVE Concat(_, _)
\* The accounts' sequences one after the other, in the account order given.
Concat(al, order) ==
    IF order = <<>> THEN <<>> ELSE al[Head(order)] \o Concat(al, Tail(order))

\* The orders in which all.values() may visit the accounts.
Orders(accounts) ==
    {o \in [1..Cardinality(accounts) -> accounts] :
       \A i, j \in DOMAIN o : i # j => o[i] # o[j]}

\* What get_all_transactions may return in the state at hand.
ReadAll == {Concat(all, o) : o \in Orders(DOMAIN all)}

GetCurrentTransactions(t) ==
    /\ Begin(t, "read_current")
    /\ frame' = [frame EXCEPT ![t] = [NoFrame EXCEPT !.op = "read_current"]]
    /\ ret' = [ret EXCEPT ![t] = [status |-> "Ok", value |-> ReadCurrent]]
    /\ pc' = [pc EXCEPT ![t] = "done"]
    /\ UNCHANGED <<current, all, file_current, file_all, work>>

GetAllTransactions(t) ==
    /\ Begin(t, "read_all")
    /\ frame' = [frame EXCEPT ![t] = [NoFrame EXCEPT !.op = "read_all"]]
    /\ \E value \in ReadAll :
         ret' = [ret EXCEPT ![t] = [status |-> "Ok", value |-> value]]
    /\ pc' = [pc EXCEPT ![t] = "done"]
    /\ UNCHANGED <<current, all, file_current, file_all, work>>

(* --------------------------- specification ----------------------------- *)

\* The caller has taken the result; the task serves the next request.
Respond(t) ==
    /\ pc[t] = "done"
    /\ pc' = [pc EXCEPT ![t] = "idle"]
    /\ frame' = [frame EXCEPT ![t] = NoFrame]
    /\ ret' = [ret EXCEPT ![t] = NoRet]
    /\ before' = [before EXCEPT ![t] = NoBefore]
    /\ overlap' = [overlap EXCEPT ![t] = FALSE]
    /\ met' = [u \in Tasks |->
                 IF u = t THEN {}
                 ELSE IF t \in met[u] THEN (met[u] \ {t}) \cup {Returned}
                 ELSE met[u]]
    /\ UNCHANGED <<current, all, file_current, file_all, work>>

Step(t) ==
    \/ CreateAll(t)
    \/ BulkAll(t)
    \/ SaveSerializeCurrent(t)
    \/ SaveWriteCurrent(t)
    \/ SaveSerializeAll(t)
    \/ SaveWriteAll(t)
    \/ Respond(t)

\* One request at a time, served by the first task.
Sequential(t) == Quiescent /\ t = "t1"

Next ==
    \E t \in Tasks :
      \/ \E request \in CreateTransactionRequest :
           Sequential(t) /\ CreateTransaction(t, request)
      \/ \E account_id \in Accounts, rows \in CsvBodies :
           Sequential(t) /\ BulkImportHandler(t, account_id, rows)
      \/ \E account_id \in Accounts :
           \E new_transactions \in ParsedBatches[account_id] :
             Sequential(t) /\ BulkImportTransactions(t, account_id, new_transactions)
      \/ \E account_id \in Accounts, request \in MemoQueries, new_memo \in NewMemos :
           Sequential(t) /\ UpdateTransactionMemo(t, account_id, request, new_memo)
      \/ Sequential(t) /\ GetCurrentTransactions(t)
      \/ Sequential(t) /\ GetAllTransactions(t)
      \/ Step(t)

Spec == Init /\ [][Next]_vars

\* The requests of the concurrent specification: one instant, two amounts
\* (two ids per account), CSV bodies of at most one row.
ConcRequests ==
    {r \in CreateTransactionRequest : r.timestamp = 1 /\ r.amount \in {31, 32}}

ConcQueries == {q \in MemoQueries : q.timestamp = 1}

ConcBodies ==
    {b \in CsvBodies :
       /\ Len(b) <= 1
       /\ \A i \in DOMAIN b : ~b[i].malformed => b[i].timestamp = Rfc3339(1)}

ConcBatches ==
    [account_id \in Accounts |-> {Successes(b, 1, account_id) : b \in ConcBodies}]

\* Mutating requests are accepted while fewer than MaxConcWork units of
\* mutation have been applied.
Accepting == work < MaxConcWork

ConcTasks == {"t1", "t2"}

\* Two tasks serve requests concurrently.
ConcNext ==
    \E t \in ConcTasks :
      \/ \E request \in ConcRequests :
           Accepting /\ CreateTransaction(t, request)
      \/ \E account_id \in Accounts, rows \in ConcBodies :
           Accepting /\ BulkImportHandler(t, account_id, rows)
      \/ \E account_id \in Accounts :
           \E new_transactions \in ConcBatches[account_id] :
             Accepting /\ BulkImportTransactions(t, account_id, new_transactions)
      \/ \E account_id \in Accounts, request \in ConcQueries, new_memo \in NewMemos :
           Accepting /\ UpdateTransactionMemo(t, account_id, request, new_memo)
      \/ GetCurrentTransactions(t)
      \/ GetAllTransactions(t)
      \/ Step(t)

ConcSpec == Init /\ [][ConcNext]_vars

\* The requests of the race: creates of one id of one account, and CSV bodies
\* for that account that are empty, hold that id, or hold another id of the
\* same instant (which evicts the first from current).
RaceAccount == "acc1"

RaceRequests ==
    {r \in CreateTransactionRequest :
       r.account_id = RaceAccount /\ r.timestamp = 1 /\ r.amount = 31}

RaceRows ==
    [malformed : {FALSE}, timestamp : {Rfc3339(1)}, payee : Payees,
     amount : {31, 32}, currency : Currencies]

RaceBodies == {<<>>} \cup {<<row>> : row \in RaceRows}

\* Every task creates and imports concurrently with the others.
RaceNext ==
    \E t \in Tasks :
      \/ \E request \in RaceRequests : CreateTransaction(t, request)
      \/ \E rows \in RaceBodies : BulkImportHandler(t, RaceAccount, rows)
      \/ Step(t)

RaceSpec == Init /\ [][RaceNext]_vars

(* ----------------------- the steps under the locks --------------------- *)

\* Mutex::lock succeeds: no task holds the lock (frame[u].holds is the set of
\* locks whose guard task u has in scope).
Free(lock) == \A u \in Tasks : lock \notin frame[u].holds

\* store.rs 92-112: create_transaction builds the id and the two entries and
\* takes the current lock.
CreateLockCurrent(t, request) ==
    /\ Begin(t, "create")
    /\ Free("current")
    /\ frame' = [frame EXCEPT ![t] =
                   [NoFrame EXCEPT !.op = "create",
                                   !.account_id = request.account_id,
                                   !.id = RequestId(request),
                                   !.holds = {"current"}]]
    /\ pc' = [pc EXCEPT ![t] = "create_locked_current"]
    /\ UNCHANGED <<current, all, file_current, file_all, ret, work>>

\* A critical section whose guard is dropped at the end of the block only: the
\* return of the conflict leaves the current lock taken.
CreateUnderCurrentLeaksGuard(t) ==
    /\ pc[t] = "create_locked_current"
    /\ LET account_id == frame[t].account_id
           transaction_id == frame[t].id
           cur == EntryOrInsert(current, account_id, EmptyMap)
           found == ContainsKey(cur[account_id], transaction_id)
           entries == Occurrences(all, account_id, transaction_id)
           f == [frame[t] EXCEPT !.found = found, !.entries = entries,
                                 !.recorded = entries,
                                 !.holds = IF found THEN @ ELSE {}]
       IN  /\ frame' = [frame EXCEPT ![t] = f]
           /\ IF found
              THEN /\ current' = cur
                   /\ ret' = [ret EXCEPT ![t] = Err("Conflict")]
                   /\ pc' = [pc EXCEPT ![t] = "done"]
                   /\ work' = work
              ELSE /\ Spend(1)
                   /\ current' = [cur EXCEPT ![account_id] =
                                    Insert(@, transaction_id,
                                           CurrentTransaction(account_id, transaction_id))]
                   /\ ret' = ret
                   /\ pc' = [pc EXCEPT ![t] = "create_all"]
    /\ UNCHANGED <<all, file_current, file_all, before, overlap, met>>

\* store.rs 113-125: the bucket is looked up (created if absent), the key is
\* checked and inserted; the guard is dropped at the end of the block or at
\* the return of the conflict.
CreateUnderCurrent(t) ==
    /\ pc[t] = "create_locked_current"
    /\ LET account_id == frame[t].account_id
           transaction_id == frame[t].id
           cur == EntryOrInsert(current, account_id, EmptyMap)
           found == ContainsKey(cur[account_id], transaction_id)
           entries == Occurrences(all, account_id, transaction_id)
           f == [frame[t] EXCEPT !.found = found, !.entries = entries,
                                 !.recorded = entries, !.holds = {}]
       IN  /\ frame' = [frame EXCEPT ![t] = f]
           /\ IF found
              THEN /\ current' = cur
                   /\ ret' = [ret EXCEPT ![t] = Err("Conflict")]
                   /\ pc' = [pc EXCEPT ![t] = "done"]
                   /\ work' = work
              ELSE /\ Spend(1)
                   /\ current' = [cur EXCEPT ![account_id] =
                                    Insert(@, transaction_id,
                                           CurrentTransaction(account_id, transaction_id))]
                   /\ ret' = ret
                   /\ pc' = [pc EXCEPT ![t] = "create_all"]
    /\ UNCHANGED <<all, file_current, file_all, before, overlap, met>>

\* store.rs 129, handlers/bulk_import.rs 74 (store.rs 189): the mutation takes
\* the all lock.
LockAll(t) ==
    /\ pc[t] \in {"create_all", "bulk_all"}
    /\ Free("all")
    /\ frame' = [frame EXCEPT ![t].holds = {"all"}]
    /\ pc' = [pc EXCEPT ![t] = IF pc[t] = "create_all" THEN "create_locked_all"
                               ELSE "bulk_locked_all"]
    /\ UNCHANGED <<current, all, file_current, file_all, ret, work, before,
                   overlap, met>>

\* store.rs 130-132: the historical entry is pushed and the guard dropped.
CreateUnderAll(t) ==
    /\ pc[t] = "create_locked_all"
    /\ LET account_id == frame[t].account_id
           al == EntryOrInsert(all, account_id, <<>>)
       IN  all' = [al EXCEPT ![account_id] =
                     Append(@, HistoricalTransaction(account_id, frame[t].id, None))]
    /\ frame' = [frame EXCEPT ![t].holds = {}]
    /\ pc' = [pc EXCEPT ![t] = "save_current"]
    /\ UNCHANGED <<current, file_current, file_all, ret, work, before, overlap, met>>

\* handlers/bulk_import.rs 14-55: the rows are parsed, a body with no parsed
\* record and at least one error is rejected; else the date range is computed
\* and the current lock is taken.
BulkLockCurrent(t, account_id, rows) ==
    LET new_transactions == Successes(rows, 1, account_id)
        errors == Failures(rows, 1, account_id)
    IN  /\ Begin(t, "bulk_import_handler")
        /\ IF new_transactions = <<>> /\ errors # <<>>
           THEN BulkRejected(t, "bulk_import_handler", account_id, rows, errors)
           ELSE /\ Free("current")
                /\ Spend(IF new_transactions = <<>> THEN 1 ELSE Len(new_transactions))
                /\ frame' = [frame EXCEPT ![t] =
                               [NoFrame EXCEPT !.op = "bulk_import_handler",
                                               !.account_id = account_id,
                                               !.rows = rows,
                                               !.new_transactions = new_transactions,
                                               !.errors = errors,
                                               !.holds = {"current"}]]
                /\ pc' = [pc EXCEPT ![t] = "bulk_locked_current"]
                /\ current' = current
                /\ ret' = ret
        /\ UNCHANGED <<all, file_current, file_all>>

\* handlers/bulk_import.rs 56-63 (store.rs 170-178): the bucket is looked up
\* (created if absent) and the entries in the batch's date range are removed.
BulkEvict(t) ==
    /\ pc[t] = "bulk_locked_current"
    /\ LET account_id == frame[t].account_id
           cur == EntryOrInsert(current, account_id, EmptyMap)
           min_date == MinDate(frame[t].new_transactions)
           max_date == MaxDate(frame[t].new_transactions)
       IN  current' = [cur EXCEPT ![account_id] =
                         IF min_date # None /\ max_date # None
                         THEN RetainKeys(@, {id \in DOMAIN @ :
                                OutsideRange(id, min_date[1], max_date[1])})
                         ELSE @]
    /\ pc' = [pc EXCEPT ![t] = "bulk_evicted"]
    /\ UNCHANGED <<all, file_current, file_all, frame, ret, work, before,
                   overlap, met>>

\* handlers/bulk_import.rs 66-69 (store.rs 181-184): one turn of the insert loop.
BulkInsert(t) ==
    /\ pc[t] = "bulk_evicted"
    /\ frame[t].imported < Len(frame[t].new_transactions)
    /\ LET tx == frame[t].new_transactions[frame[t].imported + 1] IN
         current' = [current EXCEPT ![frame[t].account_id] = Insert(@, tx[1], tx[2])]
    /\ frame' = [frame EXCEPT ![t].imported = @ + 1]
    /\ UNCHANGED <<all, file_current, file_all, pc, ret, work, before, overlap, met>>

\* handlers/bulk_import.rs 70 (store.rs 185): the loop is over and the guard on
\* current is dropped.
BulkUnlockCurrent(t) ==
    /\ pc[t] = "bulk_evicted"
    /\ frame[t].imported = Len(frame[t].new_transactions)
    /\ frame' = [frame EXCEPT ![t].holds = {}]
    /\ pc' = [pc EXCEPT ![t] = "bulk_all"]
    /\ UNCHANGED <<current, all, file_current, file_all, ret, work, before,
                   overlap, met>>

\* handlers/bulk_import.rs 75-80 (store.rs 190-195): every historical entry of
\* the batch is pushed and the guard dropped.
BulkUnderAll(t) ==
    /\ pc[t] = "bulk_locked_all"
    /\ LET account_id == frame[t].account_id
           al == EntryOrInsert(all, account_id, <<>>)
           pushed == [i \in 1..Len(frame[t].new_transactions) |->
                        frame[t].new_transactions[i][3]]
       IN  all' = [al EXCEPT ![account_id] = @ \o pushed]
    /\ frame' = [frame EXCEPT ![t].holds = {}]
    /\ pc' = [pc EXCEPT ![t] = "save_current"]
    /\ UNCHANGED <<current, file_current, file_all, ret, work, before, overlap, met>>

\* store.rs 218: update_transaction_memo takes the all lock.
MemoLockAll(t, account_id, request, new_memo) ==
    /\ Begin(t, "update_memo")
    /\ Free("all")
    /\ frame' = [frame EXCEPT ![t] =
                   [NoFrame EXCEPT !.op = "update_memo", !.account_id = account_id,
                                   !.id = RequestId(request), !.memo = new_memo,
                                   !.holds = {"all"}]]
    /\ pc' = [pc EXCEPT ![t] = "memo_locked_all"]
    /\ UNCHANGED <<current, all, file_current, file_all, ret, work>>

\* store.rs 219-233: the entry is looked up and its memo overwritten; the
\* guard is dropped at the end of the block or at the return of the error.
MemoUnderAll(t) ==
    /\ pc[t] = "memo_locked_all"
    /\ LET account_id == frame[t].account_id
           found == IF account_id \in DOMAIN all
                    THEN FindIndex(all[account_id], frame[t].id) ELSE 0
       IN  /\ frame' = [frame EXCEPT ![t] =
                          [@ EXCEPT !.found = found # 0, !.holds = {}]]
           /\ IF found = 0
              THEN /\ all' = all
                   /\ ret' = [ret EXCEPT ![t] = Err("NotFound")]
                   /\ pc' = [pc EXCEPT ![t] = "done"]
                   /\ work' = work
              ELSE /\ Spend(1)
                   /\ all' = [all EXCEPT ![account_id][found].memo = frame[t].memo]
                   /\ ret' = ret
                   /\ pc' = [pc EXCEPT ![t] = "save_current"]
    /\ UNCHANGED <<current, file_current, file_all, before, overlap, met>>

\* store.rs 52, 59: save_to_files takes the lock of the collection it is about
\* to serialize.
SaveLock(t) ==
    /\ pc[t] \in {"save_current", "save_all"}
    /\ Free(IF pc[t] = "save_current" THEN "current" ELSE "all")
    /\ frame' = [frame EXCEPT ![t].holds =
                   {IF pc[t] = "save_current" THEN "current" ELSE "all"}]
    /\ pc' = [pc EXCEPT ![t] = IF pc[t] = "save_current" THEN "save_locked_current"
                               ELSE "save_locked_all"]
    /\ UNCHANGED <<current, all, file_current, file_all, ret, work, before,
                   overlap, met>>

\* A serialization of current whose guard stays in scope after the block.
SaveUnderCurrentKeepsGuard(t) ==
    /\ pc[t] = "save_locked_current"
    /\ LET r == SerializeCurrent(current)
           f == [frame[t] EXCEPT !.saves = @ + 1]
       IN  IF r.ok
           THEN /\ frame' = [frame EXCEPT ![t] = [f EXCEPT !.json = Some(r.text)]]
                /\ pc' = [pc EXCEPT ![t] = "write_current"]
                /\ ret' = ret
           ELSE SaveReturns(t, f, TRUE)
    /\ UNCHANGED <<current, all, file_current, file_all, work, before, overlap, met>>

\* store.rs 53-54: current is serialized and the guard dropped, at the end of
\* the block or at the return of the error.
SaveUnderCurrent(t) ==
    /\ pc[t] = "save_locked_current"
    /\ LET r == SerializeCurrent(current)
           f == [frame[t] EXCEPT !.saves = @ + 1, !.holds = {}]
       IN  IF r.ok
           THEN /\ frame' = [frame EXCEPT ![t] = [f EXCEPT !.json = Some(r.text)]]
                /\ pc' = [pc EXCEPT ![t] = "write_current"]
                /\ ret' = ret
           ELSE SaveReturns(t, f, TRUE)
    /\ UNCHANGED <<current, all, file_current, file_all, work, before, overlap, met>>

\* store.rs 60-61: all is serialized and the guard dropped.
SaveUnderAll(t) ==
    /\ pc[t] = "save_locked_all"
    /\ LET r == SerializeAll(all)
           f == [frame[t] EXCEPT !.holds = {}]
       IN  IF r.ok
           THEN /\ frame' = [frame EXCEPT ![t] = [f EXCEPT !.json = Some(r.text)]]
                /\ pc' = [pc EXCEPT ![t] = "write_all"]
                /\ ret' = ret
           ELSE SaveReturns(t, f, TRUE)
    /\ UNCHANGED <<current, all, file_current, file_all, work, before, overlap, met>>

\* A get_current_transactions that reads the map without taking its lock.
ReadCurrentUnlocked(t) ==
    /\ Begin(t, "read_current_read_all")
    /\ frame' = [frame EXCEPT ![t] = [NoFrame EXCEPT !.op = "read_current_read_all"]]
    /\ ret' = [ret EXCEPT ![t] = [status |-> "Ok", current |-> ReadCurrent]]
    /\ pc' = [pc EXCEPT ![t] = "read_all"]
    /\ UNCHANGED <<current, all, file_current, file_all, work>>

\* store.rs 68-75: a client calls get_current_transactions, which takes the
\* current lock, clones every entry and drops the guard at its return. The
\* client goes on to call get_all_transactions.
ReadCurrentUnderLock(t) ==
    /\ Begin(t, "read_current_read_all")
    /\ Free("current")
    /\ frame' = [frame EXCEPT ![t] = [NoFrame EXCEPT !.op = "read_current_read_all"]]
    /\ ret' = [ret EXCEPT ![t] = [status |-> "Ok", current |-> ReadCurrent]]
    /\ pc' = [pc EXCEPT ![t] = "read_all"]
    /\ UNCHANGED <<current, all, file_current, file_all, work>>

\* store.rs 78-85: the client's get_all_transactions takes the all lock, clones
\* every entry and drops the guard at its return.
ReadAllUnderLock(t) ==
    /\ pc[t] = "read_all"
    /\ Free("all")
    /\ \E value \in ReadAll :
         ret' = [ret EXCEPT ![t] = [status |-> "Ok", current |-> ret[t].current,
                                    value |-> value]]
    /\ pc' = [pc EXCEPT ![t] = "done"]
    /\ UNCHANGED <<current, all, file_current, file_all, frame, work, before,
                   overlap, met>>

\* The requests of the lock-granular specification: creates and imports on
\* one account at the first two instants, memo updates of the first instant.
LockRequests ==
    {r \in CreateTransactionRequest :
       r.account_id = RaceAccount /\ r.timestamp = 1 /\ r.amount \in {31, 32}}

LockBodies ==
    {b \in CsvBodies :
       \A i \in DOMAIN b : ~b[i].malformed => b[i].timestamp \in {Rfc3339(1), Rfc3339(2)}}

LockStep(t) ==
    \/ CreateUnderCurrent(t)
    \/ LockAll(t)
    \/ CreateUnderAll(t)
    \/ BulkEvict(t)
    \/ BulkInsert(t)
    \/ BulkUnlockCurrent(t)
    \/ BulkUnderAll(t)
    \/ MemoUnderAll(t)
    \/ SaveLock(t)
    \/ SaveUnderCurrent(t)
    \/ SaveWriteCurrent(t)
    \/ SaveUnderAll(t)
    \/ SaveWriteAll(t)
    \/ ReadAllUnderLock(t)
    \/ Respond(t)

\* Two tasks serve requests concurrently, one lock operation or one loop turn
\* at a time.
LockNext ==
    \E t \in ConcTasks :
      \/ \E request \in LockRequests :
           Accepting /\ CreateLockCurrent(t, request)
      \/ \E rows \in LockBodies :
           Accepting /\ BulkLockCurrent(t, RaceAccount, rows)
      \/ \E request \in ConcQueries, new_memo \in NewMemos :
           Accepting /\ MemoLockAll(t, RaceAccount, request, new_memo)
      \/ ReadCurrentUnderLock(t)
      \/ LockStep(t)

LockSpec == Init /\ [][LockNext]_vars

(* ------------------- a finite set of concurrent calls ------------------ *)

\* The requests of the liveness specification: creates, one-row or empty
\* imports and memo updates on one account at the first instant, and a
\* reader.
LiveRequests == {r \in ConcRequests : r.account_id = RaceAccount}

LiveCalls ==
    [op : {"create"}, request : LiveRequests]
      \cup [op : {"bulk_import_handler"}, rows : ConcBodies]
      \cup [op : {"update_memo"}, request : ConcQueries, new_memo : NewMemos]
      \cup [op : {"read_current_read_all"}]

\* The routes hand a request to a task: the operation is invoked and has not
\* yet taken its first lock.
Invoke(t, call) ==
    /\ pc[t] = "idle"
    /\ frame[t].call = None
    /\ frame' = [frame EXCEPT ![t].call = Some(call)]
    /\ UNCHANGED <<current, all, file_current, file_all, pc, ret, work, before,
                   overlap, met>>

\* The tasks whose operation is invoked and has not returned.
Pending == {t \in Tasks : frame[t].call # None \/ pc[t] \notin {"idle", "done"}}

\* The invoked operation of task t runs up to its first lock (or to the
\* return that comes before it).
Enter(t) ==
    /\ frame[t].call # None
    /\ LET call == frame[t].call[1] IN
         CASE call.op = "create" -> CreateLockCurrent(t, call.request)
           [] call.op = "bulk_import_handler" ->
                BulkLockCurrent(t, RaceAccount, call.rows)
           [] call.op = "update_memo" ->
                MemoLockAll(t, RaceAccount, call.request, call.new_memo)
           [] OTHER -> ReadCurrentUnderLock(t)

\* The steps of an operation after its first lock, up to its return.
LiveStep(t) ==
    \/ CreateUnderCurrent(t)
    \/ LockAll(t)
    \/ CreateUnderAll(t)
    \/ BulkEvict(t)
    \/ BulkInsert(t)
    \/ BulkUnlockCurrent(t)
    \/ BulkUnderAll(t)
    \/ MemoUnderAll(t)
    \/ SaveLock(t)
    \/ SaveUnderCurrent(t)
    \/ SaveWriteCurrent(t)
    \/ SaveUnderAll(t)
    \/ SaveWriteAll(t)
    \/ ReadAllUnderLock(t)

\* Every task is handed at most one request, the third task a read; the
\* operations run concurrently.
LiveNext ==
    \E t \in Tasks :
      \/ \E call \in LiveCalls :
           /\ t \notin ConcTasks => call.op = "read_current_read_all"
           /\ Invoke(t, call)
      \/ Enter(t)
      \/ LiveStep(t)

\* Fair scheduling: a task whose next step stays possible takes it; a file
\* write returns (SaveWriteCurrent, SaveWriteAll are steps of LiveStep).
LiveSpec ==
    /\ Init
    /\ [][LiveNext]_vars
    /\ \A t \in Tasks : WF_vars(Enter(t) \/ LiveStep(t))

(* ------------------------- the id of a request ------------------------- *)

\* The id is built; nothing of the store is read or written.
IdBuilt(t, op, text, transaction_id) ==
    /\ Begin(t, op)
    /\ frame' = [frame EXCEPT ![t] =
                   [NoFrame EXCEPT !.op = op, !.amount = text,
                                   !.id = transaction_id]]
    /\ ret' = [ret EXCEPT ![t] = [status |-> "Ok"]]
    /\ pc' = [pc EXCEPT ![t] = "done"]
    /\ UNCHANGED <<current, all, file_current, file_all, work>>

\* handlers/create_transaction.rs lines 10-15 (store.rs 92-97): the id of a
\* JSON request whose amount is the number written as text.
CreateTransactionId(t, timestamp, text, currency, payee) ==
    IdBuilt(t, "create_transaction_id", text,
            TransactionId(timestamp, CreateAmountCents(ParseF64(text)),
                          currency, payee))

\* utils.rs lines 39-47: the id of a CSV row whose amount field is text.
CsvTransactionId(t, timestamp, text, currency, payee) ==
    IdBuilt(t, "csv_transaction_id", text,
            TransactionId(ParseTimestamp(Rfc3339(timestamp)).value,
                          CsvAmountCents(ParseF64(text)), currency, payee))

\* handlers/update_memo.rs lines 13-26: the id of the query parameters.
MemoTransactionId(t, timestamp, text, currency, payee) ==
    IdBuilt(t, "memo_transaction_id", text,
            TransactionId(ParseTimestamp(Rfc3339(timestamp)).value,
                          MemoAmountCents(ParseF64(text)), currency, payee))

IdOps == {"create_transaction_id", "csv_transaction_id", "memo_transaction_id"}

\* Each of the three paths builds the id of each request.
AmountNext ==
    \E t \in Tasks :
      \/ \E timestamp \in Timestamps, text \in AmountTexts,
            currency \in Currencies, payee \in Payees :
           \/ Sequential(t) /\ CreateTransactionId(t, timestamp, text, currency, payee)
           \/ Sequential(t) /\ CsvTransactionId(t, timestamp, text, currency, payee)
           \/ Sequential(t) /\ MemoTransactionId(t, timestamp, text, currency, payee)
      \/ Respond(t)

AmountSpec == Init /\ [][AmountNext]_vars

(* --------------------------- load_from_files --------------------------- *)

\* serde_json::from_str::<HashMap<String, HashMap<TransactionId, _>>>: an
\* empty bucket parses to an empty map; any other bucket text fails, a
\* truncated one as JSON and a complete one at its first key, which is a JSON
\* string and cannot be read as the struct TransactionId.
ParseCurrent(text) ==
    IF \E a \in DOMAIN text : text[a] # "{}"
    THEN [ok |-> FALSE]
    ELSE [ok |-> TRUE, value |-> [a \in DOMAIN text |-> EmptyMap]]

\* serde_json::from_str::<HashMap<String, Vec<HistoricalTransaction>>>: every
\* entry needs its account_id and its id; memo is null, absent or a string.
ParseAll(text) ==
    IF \E a \in DOMAIN text : \E i \in DOMAIN text[a] :
         ~({"account_id", "id"} \subseteq DOMAIN text[a][i])
    THEN [ok |-> FALSE]
    ELSE [ok |-> TRUE,
          value |->
            [a \in DOMAIN text |->
               [i \in 1..Len(text[a]) |->
                  HistoricalTransaction(
                    text[a][i].account_id, text[a][i].id,
                    IF "memo" \in DOMAIN text[a][i] /\ text[a][i].memo # "null"
                    THEN Some(text[a][i].memo) ELSE None)]]]

\* What current_transactions.json can be when the program starts: absent, the
\* empty map, one account with an empty bucket, or a truncated text.
CurrentFiles ==
    {NoFile, File(EmptyMap), File([a \in {"acc1"} |-> "{}"]),
     File([a \in {"acc1"} |-> "{"])}

LoadedId == TransactionId(1, 12, "USD", "shop")

\* What all_transactions.json can be when the program starts: absent, one
\* account with one entry (memo null or a string), or an entry without its
\* account_id.
AllFiles ==
    {NoFile,
     File([a \in {"acc1"} |->
             <<[account_id |-> "acc1", id |-> LoadedId, memo |-> "null"]>>]),
     File([a \in {"acc1"} |->
             <<[account_id |-> "acc1", id |-> LoadedId, memo |-> "memo"]>>]),
     File([a \in {"acc1"} |-> <<[id |-> LoadedId, memo |-> "null"]>>])}

\* store.rs lines 32-37: if the file exists it is read and parsed and the map
\* replaces current; a failed read or parse returns from load_from_files.
LoadCurrent(t) ==
    /\ pc[t] = "load_current"
    /\ IF ~file_current.exists
       THEN /\ pc' = [pc EXCEPT ![t] = "load_all"]
            /\ UNCHANGED <<current, ret>>
       ELSE \/ /\ ret' = [ret EXCEPT ![t] = Err("Io")]
               /\ pc' = [pc EXCEPT ![t] = "loaded"]
               /\ current' = current
            \/ LET data == ParseCurrent(file_current.text) IN
                 IF data.ok
                 THEN /\ current' = data.value
                      /\ pc' = [pc EXCEPT ![t] = "load_all"]
                      /\ ret' = ret
                 ELSE /\ ret' = [ret EXCEPT ![t] = Err("Json")]
                      /\ pc' = [pc EXCEPT ![t] = "loaded"]
                      /\ current' = current
    /\ UNCHANGED <<all, file_current, file_all, frame, work, before, overlap, met>>

\* store.rs lines 40-46: the same for all_transactions.json, then Ok(()).
LoadAll(t) ==
    /\ pc[t] = "load_all"
    /\ pc' = [pc EXCEPT ![t] = "loaded"]
    /\ IF ~file_all.exists
       THEN /\ ret' = [ret EXCEPT ![t] = [status |-> "Ok"]]
            /\ all' = all
       ELSE \/ /\ ret' = [ret EXCEPT ![t] = Err("Io")]
               /\ all' = all
            \/ LET data == ParseAll(file_all.text) IN
                 IF data.ok
                 THEN /\ all' = data.value
                      /\ ret' = [ret EXCEPT ![t] = [status |-> "Ok"]]
                 ELSE /\ ret' = [ret EXCEPT ![t] = Err("Json")]
                      /\ all' = all
    /\ UNCHANGED <<current, file_current, file_all, frame, work, before,
                   overlap, met>>

\* main.rs lines 120-122: an Err of load_from_files is printed as a warning;
\* the server then starts on whatever the store holds.
StartServer(t) ==
    /\ pc[t] = "loaded"
    /\ pc' = [pc EXCEPT ![t] = "idle"]
    /\ frame' = [frame EXCEPT ![t] = NoFrame]
    /\ ret' = [ret EXCEPT ![t] = NoRet]
    /\ before' = [before EXCEPT ![t] = NoBefore]
    /\ UNCHANGED <<current, all, file_current, file_all, work, overlap, met>>

\* main.rs lines 117-120: a new store, the two files as the program finds
\* them, and the first task about to call load_from_files.
LoadInit ==
    /\ current = EmptyMap
    /\ all = EmptyMap
    /\ file_current \in CurrentFiles
    /\ file_all \in AllFiles
    /\ pc = [t \in Tasks |-> IF t = "t1" THEN "load_current" ELSE "idle"]
    /\ frame = [t \in Tasks |->
                  IF t = "t1" THEN [NoFrame EXCEPT !.op = "load_from_files"]
                  ELSE NoFrame]
    /\ ret = [t \in Tasks |-> NoRet]
    /\ work = 0
    /\ before = [t \in Tasks |->
                   IF t = "t1"
                   THEN [taken |-> TRUE, current |-> EmptyMap, all |-> EmptyMap,
                         file_current |-> file_current, file_all |-> file_all]
                   ELSE NoBefore]
    /\ overlap = [t \in Tasks |-> FALSE]
    /\ met = [t \in Tasks |-> {}]

\* The program loads its files, then serves one request at a time.
LoadNext ==
    \E t \in Tasks :
      \/ LoadCurrent(t)
      \/ LoadAll(t)
      \/ StartServer(t)
      \/ \E request \in ConcRequests :
           Sequential(t) /\ Accepting /\ CreateTransaction(t, request)
      \/ \E account_id \in Accounts, rows \in ConcBodies :
           Sequential(t) /\ Accepting /\ BulkImportHandler(t, account_id, rows)
      \/ \E account_id \in Accounts, request \in ConcQueries, new_memo \in NewMemos :
           Sequential(t) /\ Accepting
             /\ UpdateTransactionMemo(t, account_id, request, new_memo)
      \/ Sequential(t) /\ GetCurrentTransactions(t)
      \/ Sequential(t) /\ GetAllTransactions(t)
      \/ Step(t)

LoadSpec == LoadInit /\ [][LoadNext]_vars

(* ------------------------------ properties ----------------------------- *)

\* The ids current holds for an account, and the account's history.
KeysOf(cur, account_id) ==
    IF account_id \in DOMAIN cur THEN DOMAIN cur[account_id] ELSE {}

HistoryOf(al, account_id) ==
    IF account_id \in DOMAIN al THEN al[account_id] ELSE <<>>

\* The positions of sequence entries whose account and id are the given ones.
Matches(entries, account_id, id) ==
    {i \in DOMAIN entries :
       entries[i].account_id = account_id /\ entries[i].id = id}

\* Task t has finished an operation of the kind op and holds its result.
Done(t, op) == pc[t] = "done" /\ frame[t].op = op

\* Task t has finished one of the two bulk imports.
DoneBulk(t) == pc[t] = "done" /\ frame[t].op \in BulkOps

\* Nothing of the store differs from what task t found at its call.
Untouched(t) ==
    /\ current = before[t].current
    /\ all = before[t].all
    /\ file_current = before[t].file_current
    /\ file_all = before[t].file_all

(* C1 *)
\* C1 as stated: in every quiescent state, every id that is a key of
\* current[account] appears exactly once in all[account].
C1_CurrentIdExactlyOnceInAll ==
    Quiescent =>
      \A account_id \in DOMAIN current :
        \A id \in DOMAIN current[account_id] :
          Occurrences(all, account_id, id) = 1

\* C1 as the code has it: in every quiescent state, every id that is a key
\* of current[account] appears at least once in all[account].
C1_CurrentIdRecordedInAll ==
    Quiescent =>
      \A account_id \in DOMAIN current :
        \A id \in DOMAIN current[account_id] :
          Occurrences(all, account_id, id) >= 1

\* A quiescent state in which an id of current is recorded twice in all.
C1_CurrentIdRecordedTwice ==
    /\ Quiescent
    /\ \E account_id \in DOMAIN current :
         \E id \in DOMAIN current[account_id] :
           Occurrences(all, account_id, id) = 2

(* C2 *)
\* C2 as stated: after a successful create(account, id), read_all contains
\* exactly one entry with that account and id, and its memo is unset.
C2_ReadAllHasExactlyOne ==
    \A t \in Tasks :
      Done(t, "create") /\ ret[t].status = "Ok" =>
        \A entries \in ReadAll :
          LET hits == Matches(entries, frame[t].account_id, frame[t].id) IN
            /\ Cardinality(hits) = 1
            /\ \A i \in hits : entries[i].memo = None

\* C2 as the code has it: after a successful create(account, id), read_all
\* contains one entry with that account and id more than the account's
\* history held before the call (so exactly one when the id was never
\* recorded for the account); the added entry is the last of them and its
\* memo is unset, and the earlier ones are as they were.
C2_ReadAllGainsOne ==
    \A t \in Tasks :
      Done(t, "create") /\ ret[t].status = "Ok" /\ before[t].taken =>
        LET account_id == frame[t].account_id
            was == HistoryOf(before[t].all, account_id)
        IN  \A entries \in ReadAll :
              LET hits == Matches(entries, account_id, frame[t].id)
                  last == CHOOSE i \in hits : \A j \in hits : j <= i
              IN  /\ Cardinality(hits) = Cardinality(Matches(was, account_id, frame[t].id)) + 1
                  /\ entries[last].memo = None
                  /\ frame[t].entries = 0 => Cardinality(hits) = 1
                  /\ all[account_id] = Append(was, entries[last])

\* A successful create after which read_all holds two entries with the
\* account and id of the call.
C2_ReadAllHasTwo ==
    \E t \in Tasks :
      /\ Done(t, "create") /\ ret[t].status = "Ok" /\ before[t].taken
      /\ \A entries \in ReadAll :
           Cardinality(Matches(entries, frame[t].account_id, frame[t].id)) = 2

(* C3 *)
\* The bag holding each (account, id) pair stored in cur once.
PairsOf(cur) ==
    SetToBag(UNION {{CurrentTransaction(account_id, id) : id \in DOMAIN cur[account_id]} :
                      account_id \in DOMAIN cur})

\* C3: after a successful create(account, id), read_current contains exactly
\* one entry with that account and id; and read_current as a whole returns
\* each (account, id) pair stored in current exactly once and nothing else,
\* which is also what a finished read_current call has returned.
C3_ReadCurrentHasExactlyOne ==
    /\ ReadCurrent = PairsOf(current)
    /\ \A t \in Tasks :
         /\ Done(t, "create") /\ ret[t].status = "Ok" /\ before[t].taken =>
              CopiesIn(CurrentTransaction(frame[t].account_id, frame[t].id),
                       ReadCurrent) = 1
         /\ Done(t, "read_current") /\ before[t].taken =>
              ret[t].value = PairsOf(current)

\* A successful create into a store whose current holds entries of two
\* accounts.
C3_CreatedAmongOthers ==
    \E t \in Tasks :
      /\ Done(t, "create") /\ ret[t].status = "Ok" /\ before[t].taken
      /\ BagCardinality(ReadCurrent) = 3
      /\ Cardinality({a \in DOMAIN current : current[a] # EmptyMap}) = 2

(* C4 *)
\* C4: after a successful create the id is a key of current[account], and a
\* create of an id that is a key of current[account] (a second create with
\* the same account, timestamp, payee, amount and currency) fails with
\* Conflict, leaves current, all and the files as they were, and never calls
\* save_to_files.
C4_SecondCreateConflicts ==
    \A t \in Tasks :
      Done(t, "create") /\ before[t].taken =>
        /\ ret[t].status = "Ok" =>
             frame[t].id \in KeysOf(current, frame[t].account_id)
        /\ frame[t].id \in KeysOf(before[t].current, frame[t].account_id) =>
             /\ ret[t] = Err("Conflict")
             /\ Untouched(t)
             /\ frame[t].saves = 0

\* A create that found its id as the account's latest historical entry and
\* as a key of current, and was refused.
C4_RefusedSecondCreate ==
    \E t \in Tasks :
      /\ Done(t, "create") /\ before[t].taken
      /\ ret[t] = Err("Conflict")
      /\ LET was == HistoryOf(before[t].all, frame[t].account_id) IN
           was # <<>> /\ was[Len(was)].id = frame[t].id

(* C5 *)
\* C5: create fails with Conflict if and only if the id is a key of
\* current[account] when it checks; an id that is only in all[account]
\* (evicted from current) does not cause Conflict, and the create then
\* appends a further historical entry for it.
C5_ConflictIffInCurrent ==
    \A t \in Tasks :
      Done(t, "create") /\ before[t].taken =>
        LET account_id == frame[t].account_id
            was == HistoryOf(before[t].all, account_id)
        IN  /\ ret[t].status \in {"Ok", "Conflict"}
            /\ ret[t].status = "Conflict" <=>
                 frame[t].id \in KeysOf(before[t].current, account_id)
            /\ ret[t].status = "Ok" =>
                 all[account_id] =
                   Append(was, HistoricalTransaction(account_id, frame[t].id, None))

\* A successful create of an id that the account's history already held.
C5_EvictedIdCreatedAgain ==
    \E t \in Tasks :
      /\ Done(t, "create") /\ ret[t].status = "Ok" /\ before[t].taken
      /\ frame[t].entries >= 1
      /\ frame[t].id \notin KeysOf(before[t].current, frame[t].account_id)

(* C6 *)
\* The tasks of S have each finished a create of the id of task w for its
\* account; the creates ran concurrently (each overlapped in time with the
\* create of w); no other operation ran during any of them, and no bulk
\* import did.
Racing(S, w) ==
    /\ w \in S
    /\ \A t \in S :
         /\ Done(t, "create")
         /\ frame[t].account_id = frame[w].account_id /\ frame[t].id = frame[w].id
         /\ ~overlap[t]
         /\ met[t] \subseteq S
         /\ t # w => w \in met[t] /\ t \in met[w]

\* C6: when two or more creates of the same id for the same account run
\* concurrently, the id not being in current[account] when the first of them
\* checks and no bulk import running during them, exactly one returns success
\* and every other one returns Conflict, and from the first call to the last
\* return all[account] gains exactly one entry with that id.
C6_OneRacingCreateSucceeds ==
    \A S \in SUBSET Tasks : \A w \in S :
      /\ Cardinality(S) >= 2
      /\ Racing(S, w)
      /\ \E t \in S : ~frame[t].found
      => /\ Cardinality({t \in S : ret[t].status = "Ok"}) = 1
         /\ \A t \in S : ret[t].status \in {"Ok", "Conflict"}
         /\ \E first, last \in S :
              /\ \A t \in S : frame[first].entries <= frame[t].entries
              /\ \A t \in S : frame[last].recorded >= frame[t].recorded
              /\ frame[last].recorded = frame[first].entries + 1

\* Three creates of one id have raced: one succeeded, two were refused.
C6_ThreeCreatesRaced ==
    \E w \in Tasks :
      /\ Racing(Tasks, w)
      /\ ret[w].status = "Ok"
      /\ \A t \in Tasks \ {w} : ret[t].status = "Conflict"
      /\ Occurrences(all, frame[w].account_id, frame[w].id) = 1

(* C7 *)
\* C7: two concurrent creates for two different accounts, each of an id that
\* is not in its account's current bucket, both succeed, and afterwards each
\* account's current bucket holds its new entry and each account's historical
\* sequence ends with its new entry; while they run, neither is blocked.
C7_CreatesOnTwoAccountsSucceed ==
    \A t, u \in Tasks :
      /\ t # u /\ Done(t, "create") /\ Done(u, "create")
      /\ frame[t].account_id # frame[u].account_id
      /\ met[t] = {u} /\ met[u] = {t}
      /\ ~frame[t].found /\ ~frame[u].found
      => \A v \in {t, u} :
           LET account_id == frame[v].account_id
               history == HistoryOf(all, account_id)
           IN  /\ ret[v] = [status |-> "Ok",
                            value |-> CurrentTransaction(account_id, frame[v].id)]
               /\ frame[v].id \in KeysOf(current, account_id)
               /\ current[account_id][frame[v].id] =
                    CurrentTransaction(account_id, frame[v].id)
               /\ history # <<>>
               /\ history[Len(history)] =
                    HistoricalTransaction(account_id, frame[v].id, None)
               /\ Occurrences(all, account_id, frame[v].id) = frame[v].entries + 1

\* Two creates for two accounts have run concurrently and both returned.
C7_TwoAccountsCreatedConcurrently ==
    \E t, u \in Tasks :
      /\ t # u /\ Done(t, "create") /\ Done(u, "create")
      /\ frame[t].account_id # frame[u].account_id
      /\ met[t] = {u} /\ met[u] = {t}
      /\ ret[t].status = "Ok" /\ ret[u].status = "Ok"

(* C8 *)
\* The ids of the parsed records of the import task t has run.
BatchIds(t) ==
    {frame[t].new_transactions[i][1] : i \in DOMAIN frame[t].new_transactions}

\* The timestamp lies between the earliest and the latest timestamp of ids,
\* the two included.
InRangeOf(timestamp, ids) ==
    \E lo, hi \in ids : lo.timestamp <= timestamp /\ timestamp <= hi.timestamp

\* C8: a successful bulk import removes from current[account] every entry
\* whose timestamp lies in the batch's range, unless the batch holds the same
\* id; every entry all[account] held before the import is still there
\* afterwards with the same id and memo at the same position.
C8_ImportEvictsAndKeepsHistory ==
    \A t \in Tasks :
      DoneBulk(t) /\ ret[t].status = "Ok" /\ before[t].taken =>
        LET account_id == frame[t].account_id
            was == HistoryOf(before[t].all, account_id)
        IN  /\ \A id \in KeysOf(before[t].current, account_id) :
                 InRangeOf(id.timestamp, BatchIds(t)) /\ id \notin BatchIds(t) =>
                   id \notin KeysOf(current, account_id)
            /\ Len(all[account_id]) = Len(was) + Len(frame[t].new_transactions)
            /\ \A i \in DOMAIN was : all[account_id][i] = was[i]

\* An import has evicted from current an id strictly inside its range, and
\* the id's historical entry is still recorded.
C8_EvictedEntryStillRecorded ==
    \E t \in Tasks :
      /\ DoneBulk(t) /\ ret[t].status = "Ok" /\ before[t].taken
      /\ \E id \in KeysOf(before[t].current, frame[t].account_id) :
           /\ id \notin BatchIds(t)
           /\ \E lo, hi \in BatchIds(t) :
                lo.timestamp < id.timestamp /\ id.timestamp < hi.timestamp
           /\ \E i \in DOMAIN all[frame[t].account_id] :
                all[frame[t].account_id][i].id = id

(* C9 *)
\* C9: after a successful bulk import with at least one parsed record, the
\* keys of current[account] are the keys it had before whose timestamp is
\* earlier than the batch's earliest or later than its latest, plus the ids
\* of the batch; an old key at the earliest or the latest timestamp is
\* evicted unless the batch holds it.
C9_KeysAfterImport ==
    \A t \in Tasks :
      DoneBulk(t) /\ ret[t].status = "Ok" /\ before[t].taken
        /\ frame[t].new_transactions # <<>> =>
        LET account_id == frame[t].account_id
            ids == BatchIds(t)
        IN  KeysOf(current, account_id) =
              {id \in KeysOf(before[t].current, account_id) :
                 \/ \A b \in ids : id.timestamp < b.timestamp
                 \/ \A b \in ids : id.timestamp > b.timestamp}
              \cup ids

\* An import has evicted an old key at its earliest timestamp and kept an
\* old key before it.
C9_EvictedAtBoundKeptOutside ==
    \E t \in Tasks :
      /\ DoneBulk(t) /\ ret[t].status = "Ok" /\ before[t].taken
      /\ \E gone, kept \in KeysOf(before[t].current, frame[t].account_id) :
           /\ gone \notin BatchIds(t)
           /\ \A b \in BatchIds(t) : gone.timestamp <= b.timestamp
           /\ \E b \in BatchIds(t) : gone.timestamp = b.timestamp
           /\ \A b \in BatchIds(t) : kept.timestamp < b.timestamp
           /\ gone \notin KeysOf(current, frame[t].account_id)
           /\ kept \in KeysOf(current, frame[t].account_id)

(* C10 *)
\* Row i of the CSV body fails to parse.
RowFails(rows, i) == rows[i].malformed \/ rows[i].timestamp = NotATimestamp

\* C10: a bulk import in which every row fails to parse (no parsed record,
\* at least one error) returns BadRequest, leaves current, all and the files
\* as they were, and never calls save_to_files; so does the store's entry
\* point for a batch without records.
C10_AllRowsFailingIsBadRequest ==
    \A t \in Tasks :
      /\ Done(t, "bulk_import_handler") /\ before[t].taken
           /\ frame[t].rows # <<>>
           /\ (\A i \in DOMAIN frame[t].rows : RowFails(frame[t].rows, i)) =>
           /\ ret[t] = Err("BadRequest")
           /\ Len(frame[t].errors) = Len(frame[t].rows)
           /\ Untouched(t)
           /\ frame[t].saves = 0
      /\ Done(t, "bulk_import_transactions") /\ before[t].taken
           /\ frame[t].new_transactions = <<>> =>
           /\ ret[t] = Err("BadRequest")
           /\ Untouched(t)
           /\ frame[t].saves = 0

\* An import of a body whose two rows both fail, one malformed and one with
\* a bad timestamp, has been refused by a store that holds entries.
C10_TwoFailingRowsRefused ==
    \E t \in Tasks :
      /\ Done(t, "bulk_import_handler") /\ before[t].taken
      /\ Len(frame[t].rows) = 2
      /\ frame[t].rows[1].malformed
      /\ ~frame[t].rows[2].malformed /\ frame[t].rows[2].timestamp = NotATimestamp
      /\ ret[t] = Err("BadRequest")
      /\ before[t].current # EmptyMap /\ before[t].all # EmptyMap

(* C11 *)
\* The rows of the body that parse, and those that fail, by their position.
GoodRows(rows) == {i \in DOMAIN rows : ~RowFails(rows, i)}

BadRows(rows) == {i \in DOMAIN rows : RowFails(rows, i)}

\* The id a row that parses stands for.
RowId(row) ==
    TransactionId(row.timestamp[2], AmountCents(row.amount), row.currency, row.payee)

\* C11: a bulk import of a body with k >= 1 rows that parse and m rows that
\* fail succeeds with imported = k and m errors, the errors in row order and
\* each tagged with its row's index (from 0) plus 2; afterwards the id of
\* every row that parsed is a key of current[account] and is recorded in
\* all[account].
C11_PartialImportReportsRows ==
    \A t \in Tasks :
      Done(t, "bulk_import_handler") /\ before[t].taken
        /\ GoodRows(frame[t].rows) # {} =>
        LET rows == frame[t].rows
            account_id == frame[t].account_id
        IN  /\ ret[t].status = "Ok"
            /\ ret[t].value.imported = Cardinality(GoodRows(rows))
            /\ Len(ret[t].value.errors) = Cardinality(BadRows(rows))
            /\ {ret[t].value.errors[j].row : j \in DOMAIN ret[t].value.errors}
                 = {(i - 1) + 2 : i \in BadRows(rows)}
            /\ \A j, k \in DOMAIN ret[t].value.errors :
                 j < k => ret[t].value.errors[j].row < ret[t].value.errors[k].row
            /\ \A i \in GoodRows(rows) :
                 /\ RowId(rows[i]) \in KeysOf(current, account_id)
                 /\ Occurrences(all, account_id, RowId(rows[i])) >= 1

\* An import of a body whose first row fails and whose second row parses has
\* succeeded.
C11_FailingRowThenGoodRow ==
    \E t \in Tasks :
      /\ Done(t, "bulk_import_handler") /\ before[t].taken
      /\ ret[t].status = "Ok"
      /\ BadRows(frame[t].rows) = {1} /\ GoodRows(frame[t].rows) = {2}

(* C12 *)
\* C12 as stated: a bulk import fails with BadRequest exactly when no record
\* parsed and at least one row failed (so a batch with no record and no error
\* is not rejected), and that is the only case in which it leaves current and
\* all as they were.
C12_BadRequestIffAllRowsFail ==
    \A t \in Tasks :
      DoneBulk(t) /\ before[t].taken =>
        /\ ret[t].status \in {"Ok", "BadRequest"}
        /\ ret[t].status = "BadRequest" <=>
             frame[t].new_transactions = <<>> /\ frame[t].errors # <<>>
        /\ current = before[t].current /\ all = before[t].all =>
             ret[t].status = "BadRequest"

(* C13 *)
\* C13 as stated: the imported count of a successful bulk import equals the
\* number of entries of current[account] that come from the batch once its
\* in-memory mutation is complete.
C13_ImportedCountsCurrentEntries ==
    \A t \in Tasks :
      DoneBulk(t) /\ before[t].taken /\ ret[t].status = "Ok" =>
        ret[t].value.imported
          = Cardinality(BatchIds(t) \cap KeysOf(current, frame[t].account_id))

\* C13 amended: the imported count of a successful bulk import is the number of
\* parsed records, one for each insert into current[account]; every id of the
\* batch is then a key of current[account], so the count equals the number of
\* entries that come from the batch when the ids of the batch are pairwise
\* distinct and exceeds it otherwise.
C13_ImportedCountsInserts ==
    \A t \in Tasks :
      DoneBulk(t) /\ before[t].taken /\ ret[t].status = "Ok" =>
        LET n == Cardinality(BatchIds(t) \cap KeysOf(current, frame[t].account_id))
        IN  /\ ret[t].value.imported = Len(frame[t].new_transactions)
            /\ frame[t].op = "bulk_import_handler" =>
                 ret[t].value.imported = Cardinality(GoodRows(frame[t].rows))
            /\ n = Cardinality(BatchIds(t))
            /\ ret[t].value.imported >= n
            /\ ret[t].value.imported = n <=>
                 \A i, j \in DOMAIN frame[t].new_transactions :
                   frame[t].new_transactions[i][1] = frame[t].new_transactions[j][1]
                     => i = j

\* An import of two records with one id has returned imported = 2 while
\* current[account] holds one entry of the batch.
C13_TwoInsertsOneEntry ==
    \E t \in Tasks :
      /\ DoneBulk(t) /\ before[t].taken /\ ret[t].status = "Ok"
      /\ ret[t].value.imported = 2
      /\ Cardinality(BatchIds(t) \cap KeysOf(current, frame[t].account_id)) = 1

(* C14 *)
\* C14: every successful bulk import returns duplicates = 0, whatever the batch
\* repeats and whatever current[account] already held.
C14_DuplicatesIsZero ==
    \A t \in Tasks :
      DoneBulk(t) /\ ret[t].status = "Ok" => ret[t].value.duplicates = 0

\* A successful import whose batch holds one id twice, an id that was a key of
\* current[account] when the import was called.
C14_RepeatedIdImportedAgain ==
    \E t \in Tasks :
      /\ DoneBulk(t) /\ before[t].taken /\ ret[t].status = "Ok"
      /\ Len(frame[t].new_transactions) = 2
      /\ \E id \in KeysOf(before[t].current, frame[t].account_id) :
           BatchIds(t) = {id}

(* C15 *)
\* C15: a successful bulk import, and so one whose batch holds several records
\* with one id, raises no error for a parsed record, leaves every id of the
\* batch as one key of current[account] with the entry of the record written
\* last, and appends to all[account] one entry for each parsed record, in batch
\* order, with memo unset.
C15_RepeatedIdLastWinsAllAppended ==
    \A t \in Tasks :
      DoneBulk(t) /\ before[t].taken /\ ret[t].status = "Ok" =>
        LET account_id == frame[t].account_id
            txs == frame[t].new_transactions
        IN  /\ Len(ret[t].value.errors) = Cardinality(BadRows(frame[t].rows))
            /\ \A i \in DOMAIN txs :
                 /\ txs[i][1] \in KeysOf(current, account_id)
                 /\ current[account_id][txs[i][1]]
                      = CurrentTransaction(account_id, txs[i][1])
                 /\ \E j \in DOMAIN txs :
                      /\ txs[j][1] = txs[i][1]
                      /\ \A k \in DOMAIN txs : txs[k][1] = txs[i][1] => k <= j
                      /\ current[account_id][txs[i][1]] = txs[j][2]
            /\ HistoryOf(all, account_id)
                 = HistoryOf(before[t].all, account_id)
                     \o [i \in 1..Len(txs) |->
                           HistoricalTransaction(account_id, txs[i][1], None)]

\* An import of two rows with one id into an account with a history has
\* succeeded without an error entry.
C15_SameIdTwiceAfterHistory ==
    \E t \in Tasks :
      /\ Done(t, "bulk_import_handler") /\ before[t].taken /\ ret[t].status = "Ok"
      /\ ret[t].value.errors = <<>>
      /\ Len(frame[t].new_transactions) = 2
      /\ Cardinality(BatchIds(t)) = 1
      /\ HistoryOf(before[t].all, frame[t].account_id) # <<>>

(* C16 *)
\* The entries of all[account] at the call of task t whose id equals the
\* requested one on timestamp, amount_cents, currency and payee.
MemoMatches(t) ==
    LET entries == HistoryOf(before[t].all, frame[t].account_id) IN
      {i \in DOMAIN entries :
         /\ entries[i].id.timestamp = frame[t].id.timestamp
         /\ entries[i].id.amount_cents = frame[t].id.amount_cents
         /\ entries[i].id.currency = frame[t].id.currency
         /\ entries[i].id.payee = frame[t].id.payee}

\* C16: update_memo returns NotFound when all has no bucket for the account and
\* when the bucket holds no entry whose id equals the requested id on all four
\* fields; current, all and the files are then as they were and save_to_files
\* was not called.
C16_MemoNotFoundChangesNothing ==
    \A t \in Tasks :
      Done(t, "update_memo") /\ before[t].taken /\ MemoMatches(t) = {} =>
        /\ ret[t] = Err("NotFound")
        /\ Untouched(t)
        /\ frame[t].saves = 0

\* An update_memo has returned NotFound for an account whose bucket holds an
\* entry that differs from the requested id in amount_cents only.
C16_NotFoundBesideNearMatch ==
    \E t \in Tasks :
      /\ Done(t, "update_memo") /\ before[t].taken
      /\ ret[t] = Err("NotFound")
      /\ \E i \in DOMAIN HistoryOf(before[t].all, frame[t].account_id) :
           LET id == before[t].all[frame[t].account_id][i].id IN
             /\ id.timestamp = frame[t].id.timestamp
             /\ id.currency = frame[t].id.currency
             /\ id.payee = frame[t].id.payee
             /\ id.amount_cents # frame[t].id.amount_cents

(* C17 *)
\* C17: update_memo succeeds exactly when all[account] holds an entry with the
\* requested id, whether or not the id is a key of current[account]; it then
\* sets the memo of the first such entry to new_memo and leaves current, every
\* other account and every other entry (id, memo and position) as they were.
C17_MemoUpdatesOneEntryOnly ==
    \A t \in Tasks :
      Done(t, "update_memo") /\ before[t].taken =>
        /\ ret[t].status = "Ok" <=> MemoMatches(t) # {}
        /\ ret[t].status = "Ok" =>
             LET account_id == frame[t].account_id
                 k == CHOOSE i \in MemoMatches(t) : \A j \in MemoMatches(t) : i <= j
             IN  /\ current = before[t].current
                 /\ DOMAIN all = DOMAIN before[t].all
                 /\ \A a \in DOMAIN all \ {account_id} : all[a] = before[t].all[a]
                 /\ Len(all[account_id]) = Len(before[t].all[account_id])
                 /\ all[account_id][k].memo = frame[t].memo
                 /\ all[account_id][k].id = before[t].all[account_id][k].id
                 /\ all[account_id][k].account_id
                      = before[t].all[account_id][k].account_id
                 /\ \A i \in DOMAIN all[account_id] \ {k} :
                      all[account_id][i] = before[t].all[account_id][i]

\* An update_memo has set the memo of an entry whose id a bulk import had
\* evicted from current[account].
C17_MemoSetOnEvictedId ==
    \E t \in Tasks :
      /\ Done(t, "update_memo") /\ before[t].taken /\ ret[t].status = "Ok"
      /\ frame[t].memo # None
      /\ frame[t].id \notin KeysOf(current, frame[t].account_id)

(* C18 *)
\* C18 as stated: in every state the store is in between two operations,
\* save_to_files can serialize both collections, and parsing the two texts
\* on a new store gives a current and an all equal to the saved ones.
C18_SaveThenLoadRestores ==
    Quiescent =>
      LET current_json == SerializeCurrent(current)
          all_json == SerializeAll(all)
      IN  /\ current_json.ok
          /\ ParseCurrent(current_json.text).ok
          /\ ParseCurrent(current_json.text).value = current
          /\ all_json.ok
          /\ ParseAll(all_json.text).ok
          /\ ParseAll(all_json.text).value = all

(* C20 *)
\* C20 as stated: when load_from_files has returned without a failed read,
\* each collection is the content of its file if the file exists and parses and
\* is what it was if the file is absent, whatever the other file is; no error
\* is raised when each file is absent or parses.
C20_FilesLoadedIndependently ==
    \A t \in Tasks :
      pc[t] = "loaded" /\ ret[t] # Err("Io") =>
        /\ file_current.exists /\ ParseCurrent(file_current.text).ok =>
             current = ParseCurrent(file_current.text).value
        /\ ~file_current.exists => current = before[t].current
        /\ file_all.exists /\ ParseAll(file_all.text).ok =>
             all = ParseAll(file_all.text).value
        /\ ~file_all.exists => all = before[t].all
        /\ (file_current.exists => ParseCurrent(file_current.text).ok)
             /\ (file_all.exists => ParseAll(file_all.text).ok)
             => ret[t].status = "Ok"

(* C19 *)
\* The in-memory effect of the mutation task t has finished is in place:
\* a create's entry is in current[account] and last in all[account], an
\* import's records are in current[account] and appended to all[account],
\* an update_memo's memo is on the first entry with the id.
MutationInPlace(t) ==
    LET account_id == frame[t].account_id
        was == HistoryOf(before[t].all, account_id)
        txs == frame[t].new_transactions
    IN  CASE frame[t].op = "create" ->
               /\ frame[t].id \in KeysOf(current, account_id)
               /\ current[account_id][frame[t].id]
                    = CurrentTransaction(account_id, frame[t].id)
               /\ all[account_id]
                    = was \o <<HistoricalTransaction(account_id, frame[t].id, None)>>
          [] frame[t].op \in BulkOps ->
               /\ \A i \in DOMAIN txs : txs[i][1] \in KeysOf(current, account_id)
               /\ all[account_id]
                    = was \o [i \in 1..Len(txs) |->
                                HistoricalTransaction(account_id, txs[i][1], None)]
          [] frame[t].op = "update_memo" ->
               /\ MemoMatches(t) # {}
               /\ LET k == CHOOSE i \in MemoMatches(t) :
                             \A j \in MemoMatches(t) : i <= j
                  IN  all[account_id][k].memo = frame[t].memo
          [] OTHER -> FALSE

\* C19: an operation that called save_to_files returns its success result
\* whether or not the save failed, and when the save failed the mutation of
\* current and all is still in place; no operation returns anything but Ok,
\* Conflict, BadRequest or NotFound.
C19_SaveFailureKeepsSuccess ==
    \A t \in Tasks :
      pc[t] = "done" =>
        /\ ret[t].status \in {"Ok", "Conflict", "BadRequest", "NotFound"}
        /\ frame[t].saves > 0 => ret[t] = OkResult(frame[t])
        /\ frame[t].warned =>
             /\ frame[t].saves = 1
             /\ ret[t].status = "Ok"
             /\ before[t].taken => MutationInPlace(t)

\* A create whose save_to_files failed has returned the new transaction.
C19_CreateSurvivesFailedSave ==
    \E t \in Tasks :
      /\ Done(t, "create") /\ before[t].taken /\ frame[t].warned
      /\ ret[t] = [status |-> "Ok",
                   value |-> CurrentTransaction(frame[t].account_id, frame[t].id)]
      /\ frame[t].id \in KeysOf(current, frame[t].account_id)
      /\ ~file_all.exists

(* C21 *)
\* The positions of a read_all result that hold entries of the account.
RunOf(value, account_id) ==
    {i \in DOMAIN value : value[i].account_id = account_id}

\* C21: the result of read_all holds, for each account, the entries of
\* all[account] in their order of insertion at consecutive positions, and
\* nothing else; read_all and read_current leave current, all and both files
\* as they were and call no save_to_files.
C21_ReadAllKeepsAccountRuns ==
    \A t \in Tasks :
      /\ Done(t, "read_all") /\ before[t].taken =>
           LET value == ret[t].value IN
             /\ ret[t].status = "Ok"
             /\ \A i \in DOMAIN value : value[i].account_id \in DOMAIN all
             /\ \A account_id \in DOMAIN all :
                  LET run == RunOf(value, account_id) IN
                    /\ Cardinality(run) = Len(all[account_id])
                    /\ \A i, j \in run : \A k \in i..j : k \in run
                    /\ \A i \in run :
                         value[i] = all[account_id][i + 1
                                       - (CHOOSE s \in run : \A k \in run : s <= k)]
      /\ pc[t] = "done" /\ frame[t].op \in {"read_all", "read_current"}
           /\ before[t].taken =>
             Untouched(t) /\ frame[t].saves = 0

\* A read_all has returned the entries of two accounts, one of them with two
\* entries of different ids.
C21_TwoAccountsRead ==
    \E t \in Tasks :
      /\ Done(t, "read_all") /\ before[t].taken
      /\ \E a, b \in DOMAIN all :
           /\ a # b /\ Len(all[a]) = 2 /\ Len(all[b]) = 1
           /\ all[a][1].id # all[a][2].id

(* C22 *)
\* The ids the three paths build from the fields of the id task t has built.
IdsOfPaths(t) ==
    LET id == frame[t].id
        amount == ParseF64(frame[t].amount)
    IN  {TransactionId(id.timestamp, CreateAmountCents(amount), id.currency, id.payee),
         TransactionId(id.timestamp, CsvAmountCents(amount), id.currency, id.payee),
         TransactionId(id.timestamp, MemoAmountCents(amount), id.currency, id.payee)}

\* C22: the create, CSV and update_memo paths build one and the same id from
\* one (timestamp, amount, currency, payee); its amount_cents is the f64
\* product amount * 100.0 rounded to the nearest integer, ties away from zero:
\* for an amount of n/256, whose product is exact, the integer nearest to
\* 100 n / 256 and the one of larger magnitude at a tie; 1001 for 10.005 and
\* 1000 for 10.004999.
C22_OneCentsRuleOnEveryPath ==
    \A t \in Tasks :
      pc[t] = "done" /\ frame[t].op \in IdOps =>
        LET cents == frame[t].id.amount_cents
            text == frame[t].amount
        IN  /\ IdsOfPaths(t) = {frame[t].id}
            /\ text \in DOMAIN DyadicUnits =>
                 LET n == DyadicUnits[text]
                     d == 256 * cents - 100 * n
                 IN  /\ cents = AmountCents(n)
                     /\ -128 <= d /\ d <= 128
                     /\ d = 128 => n > 0
                     /\ d = -128 => n < 0
            /\ text = "10.005" => cents = 1001
            /\ text = "10.004999" => cents = 1000
            /\ text = "-10.005" => cents = -1001

\* The CSV path has built the id of a row whose amount is 10.005.
C22_IdOfTenPointZeroZeroFive ==
    \E t \in Tasks :
      /\ pc[t] = "done"
      /\ frame[t].op = "csv_transaction_id"
      /\ frame[t].amount = "10.005"
      /\ frame[t].id.amount_cents = 1001

(* C23 *)
\* C23: a successful file write stores the text its operation serialized
\* under the lock, whatever other operations have applied and written since;
\* so an operation that mutated first and writes last leaves on disk a
\* snapshot without the other operation's mutation.
C23_WriteStoresOwnSnapshot ==
    [][\A t \in Tasks :
         /\ pc[t] = "write_current" /\ pc'[t] = "save_all" =>
              file_current' = File(frame[t].json[1])
         /\ pc[t] = "write_all" /\ pc'[t] = "done" /\ ~frame'[t].warned =>
              file_all' = File(frame[t].json[1])]_vars

\* Two overlapping imports have returned with every write successful; the
\* current file holds the bucket the first created and lacks the bucket the
\* second created, which current holds.
C23_StaleSnapshotWrittenLast ==
    \E t, u \in Tasks :
      /\ t # u /\ DoneBulk(t) /\ DoneBulk(u)
      /\ u \in met[t] /\ t \in met[u]
      /\ ret[t].status = "Ok" /\ ret[u].status = "Ok"
      /\ ~frame[t].warned /\ ~frame[u].warned
      /\ file_current.exists
      /\ frame[t].account_id \in DOMAIN file_current.text
      /\ frame[u].account_id \notin DOMAIN file_current.text
      /\ frame[u].account_id \in DOMAIN current
      /\ file_current # File(SerializeCurrent(current).text)

(* C24 *)
\* A write of the save that task t has finished failed: the failure was
\* logged although current could be serialized.
WriteFailed(t) == frame[t].warned /\ SerializeCurrent(current).ok

\* C24 as stated: when operations do not overlap and no file write fails, at
\* the return of a successful create, bulk import or update_memo the current
\* file holds current and the historical file holds all; an operation that
\* failed has written nothing.
C24_FilesHoldMemoryAtReturn ==
    \A t \in Tasks :
      pc[t] = "done" /\ before[t].taken
        /\ frame[t].op \in {"create", "update_memo"} \cup BulkOps =>
          /\ ret[t].status = "Ok" /\ ~WriteFailed(t) =>
               /\ SerializeCurrent(current).ok
               /\ file_current = File(SerializeCurrent(current).text)
               /\ file_all = File(SerializeAll(all).text)
          /\ ret[t].status # "Ok" =>
               /\ frame[t].saves = 0
               /\ file_current = before[t].file_current
               /\ file_all = before[t].file_all

(* C25 *)
\* C25: a task that is about to call save_to_files, or that is writing one of
\* the two files, holds neither lock; inside save_to_files a task holds the
\* current lock only while it serializes current and the all lock only while
\* it serializes all.
C25_NoLockAcrossFileWrite ==
    \A t \in Tasks :
      /\ pc[t] \in {"save_current", "write_current", "save_all", "write_all"} =>
           frame[t].holds = {}
      /\ pc[t] = "save_locked_current" => frame[t].holds = {"current"}
      /\ pc[t] = "save_locked_all" => frame[t].holds = {"all"}

\* A task is writing the historical file, having written the current file,
\* while another task holds a lock.
C25_WritingWhileAnotherHoldsLock ==
    \E t, u \in Tasks :
      /\ t # u
      /\ pc[t] = "write_all" /\ file_current.exists
      /\ frame[u].holds # {}

(* C27 *)
\* Task u has evicted the date range of its batch and has not yet inserted
\* every record of the batch.
MidImport(u) ==
    /\ pc[u] = "bulk_evicted"
    /\ frame[u].imported < Len(frame[u].new_transactions)

\* Task t takes the step that reads current: get_current_transactions as a
\* whole, or the bucket lookup and key check of a create.
ReadsCurrent(t) ==
    \/ pc[t] = "idle" /\ pc'[t] = "read_all"
    \/ pc[t] = "create_locked_current" /\ pc'[t] # "create_locked_current"

\* C27: no get_current_transactions and no existence check of a create reads
\* current in a state where a bulk import has evicted its date range and not
\* yet inserted its whole batch.
C27_NoReadInsideImport ==
    [][\A t \in Tasks :
         ReadsCurrent(t) => \A u \in Tasks \ {t} : ~MidImport(u)]_vars

\* A reader that was called during a two-record import has read current
\* after the import's critical section: the import evicted an entry, and the
\* reader got both records of the batch and not the evicted entry.
C27_ReadAfterImportSection ==
    \E t, u \in Tasks :
      /\ t # u
      /\ frame[t].op = "read_current_read_all" /\ pc[t] = "read_all"
      /\ u \in met[t]
      /\ frame[u].op \in BulkOps /\ pc[u] = "bulk_all"
      /\ Len(frame[u].new_transactions) = 2
      /\ ret[t].current = ReadCurrent
      /\ \A i \in 1..2 : BagIn(frame[u].new_transactions[i][2], ret[t].current)
      /\ \E i \in DOMAIN HistoryOf(all, frame[u].account_id) :
           LET h == all[frame[u].account_id][i] IN
             /\ ~OutsideRange(h.id, MinDate(frame[u].new_transactions)[1],
                              MaxDate(frame[u].new_transactions)[1])
             /\ ~BagIn(CurrentTransaction(h.account_id, h.id), ret[t].current)

(* C28 *)
\* C28 as stated: when a reader has called get_current_transactions and then
\* get_all_transactions, every entry of the first result has an entry with
\* its account and id in the second result.
C28_ReadCurrentWithinReadAll ==
    \A t \in Tasks :
      pc[t] = "done" /\ frame[t].op = "read_current_read_all" =>
        \A c \in BagToSet(ret[t].current) :
          \E i \in DOMAIN ret[t].value :
            /\ ret[t].value[i].account_id = c.account_id
            /\ ret[t].value[i].id = c.id

(* C26 *)
\* The ids of the account's historical entries, in their order.
IdsOf(al, account_id) ==
    [i \in 1..Len(al[account_id]) |-> al[account_id][i].id]

\* C26: no step of a create, a bulk import or an update_memo removes an
\* account of all, and for every account the sequence of the ids in
\* all[account] before the step is a prefix of the sequence after it.
C26_HistoryIsAppendOnly ==
    [][/\ DOMAIN all \subseteq DOMAIN all'
       /\ \A account_id \in DOMAIN all :
            /\ Len(all[account_id]) <= Len(all'[account_id])
            /\ IdsOf(all, account_id)
                 = SubSeq(IdsOf(all', account_id), 1, Len(all[account_id]))]_vars

\* A bulk import has appended to a history whose first entry was given a
\* memo while another operation was in progress.
C26_AppendedAfterMemo ==
    \E t \in Tasks :
      /\ DoneBulk(t) /\ ret[t].status = "Ok" /\ ~before[t].taken
      /\ \E account_id \in DOMAIN all :
           /\ Len(all[account_id]) >= 2
           /\ all[account_id][1].memo # None

(* C29 *)
\* C29: in every quiescent state reached by any interleaving of creates, bulk
\* imports and memo updates, every key of current[account] is the id of at
\* least one entry of all[account], every entry stored under an account in
\* current or in all carries that account, and every entry of current carries
\* the id it is stored under.
C29_EntriesAgreeWithTheirKeys ==
    Quiescent =>
      /\ \A account_id \in DOMAIN current :
           \A id \in DOMAIN current[account_id] :
             /\ account_id \in DOMAIN all
             /\ \E i \in DOMAIN all[account_id] : all[account_id][i].id = id
             /\ current[account_id][id].account_id = account_id
             /\ current[account_id][id].id = id
      /\ \A account_id \in DOMAIN all :
           \A i \in DOMAIN all[account_id] :
             all[account_id][i].account_id = account_id

\* A quiescent state in which the second account holds an imported entry in
\* current and the first account a created one, after overlapping operations.
C29_TwoAccountsFilled ==
    /\ Quiescent
    /\ "acc1" \in DOMAIN current /\ "acc2" \in DOMAIN current
    /\ DOMAIN current["acc1"] # {} /\ DOMAIN current["acc2"] # {}
    /\ Len(all["acc2"]) >= 2

(* C30 *)
\* The accounts whose bucket in the map differs between m and n, or exists
\* in one of them only.
Touched(m, n) ==
    {a \in DOMAIN m \cup DOMAIN n :
       a \notin DOMAIN m \/ a \notin DOMAIN n \/ m[a] # n[a]}

\* C30: a step of a create, a bulk import or an update_memo changes in
\* current and in all no bucket but the one of the account named in the call
\* of the task that takes the step, and removes no bucket.
C30_OtherAccountsUntouched ==
    [][/\ DOMAIN current \subseteq DOMAIN current'
       /\ DOMAIN all \subseteq DOMAIN all'
       /\ \A b \in Touched(current, current') \cup Touched(all, all') :
            \E t \in Tasks :
              /\ pc'[t] # pc[t]
              /\ frame'[t].op \in {"create", "update_memo"} \cup BulkOps
              /\ frame'[t].account_id = b]_vars

\* A bulk import into one account has evicted an entry there while the other
\* account keeps an entry of current at the same instant.
C30_EvictedInOneAccountOnly ==
    \E t \in Tasks :
      /\ DoneBulk(t) /\ before[t].taken /\ ret[t].status = "Ok"
      /\ \E a \in DOMAIN current, b \in DOMAIN current :
           /\ a = frame[t].account_id /\ b # a
           /\ \E id \in KeysOf(before[t].current, a) :
                /\ id \notin DOMAIN current[a]
                /\ \E other \in DOMAIN current[b] : other.timestamp = id.timestamp
(* C31 *)
\* The position of a step in its operation: every step of a task moves it
\* forward.
Rank(p) ==
    CASE p = "idle" -> 0
      [] p \in {"create_locked_current", "bulk_locked_current", "memo_locked_all"} -> 1
      [] p = "bulk_evicted" -> 2
      [] p \in {"create_all", "bulk_all", "read_all"} -> 3
      [] p \in {"create_locked_all", "bulk_locked_all"} -> 4
      [] p = "save_current" -> 5
      [] p = "save_locked_current" -> 6
      [] p = "write_current" -> 7
      [] p = "save_all" -> 8
      [] p = "save_locked_all" -> 9
      [] p = "write_all" -> 10
      [] OTHER -> 11

RECURSIVE HistoryLength(_, _)
\* The number of historical entries of the accounts given.
HistoryLength(al, accounts) ==
    IF accounts = {} THEN 0
    ELSE LET a == CHOOSE x \in accounts : TRUE IN
           Len(al[a]) + HistoryLength(al, accounts \ {a})

RECURSIVE Pushed(_)
\* The number of historical entries the returned operations of the tasks
\* given have to push: one per created transaction, one per parsed record.
Pushed(tasks) ==
    IF tasks = {} THEN 0
    ELSE LET t == CHOOSE x \in tasks : TRUE
             n == IF pc[t] # "done" \/ ret[t].status # "Ok" THEN 0
                  ELSE IF frame[t].op = "create" THEN 1
                  ELSE IF frame[t].op \in BulkOps THEN Len(frame[t].new_transactions)
                  ELSE 0
         IN  n + Pushed(tasks \ {t})

\* No task holds the current lock and the all lock together, and a task that
\* waits for a lock holds none.
OneLockAtATime ==
    \A t \in Tasks :
      /\ Cardinality(frame[t].holds) <= 1
      /\ (frame[t].call # None
            \/ pc[t] \in {"create_all", "bulk_all", "save_current", "save_all", "read_all"}) =>
           frame[t].holds = {}

\* An operation goes through its steps once: no step takes a task back, a
\* returned operation that mutated the store called save_to_files once, one
\* that was refused or only read never called it, and once every invoked
\* operation has returned the store holds one historical entry per created
\* transaction and per parsed record.
AttemptedOnce ==
    /\ \A t \in Tasks :
         /\ frame[t].saves <= 1
         /\ pc[t] = "done" =>
              frame[t].saves = (IF ret[t].status = "Ok"
                                     /\ frame[t].op # "read_current_read_all"
                                THEN 1 ELSE 0)
    /\ Pending = {} => HistoryLength(all, DOMAIN all) = Pushed(Tasks)

\* C31: among finitely many operations invoked concurrently, under fair
\* scheduling, every invoked operation returns; no task holds both locks at
\* once; no step takes a task back in its operation and every operation makes
\* its mutation and its call of save_to_files once.
C31_EveryOperationReturnsOnce ==
    /\ [](OneLockAtATime /\ AttemptedOnce)
    /\ [][\A t \in Tasks : pc'[t] # pc[t] => Rank(pc'[t]) > Rank(pc[t])]_vars
    /\ \A t \in Tasks : (t \in Pending) ~> (pc[t] = "done")

\* Three operations that ran during one another have all returned: a create
\* succeeded without its save, a memo update of the created entry succeeded,
\* and a reader got the entry from both collections.
C31_ThreeOverlappingCallsReturned ==
    /\ \A t \in Tasks : pc[t] = "done" /\ met[t] # {}
    /\ \E t, u, v \in Tasks :
         /\ frame[t].op = "create" /\ ret[t].status = "Ok" /\ frame[t].warned
         /\ frame[u].op = "update_memo" /\ ret[u].status = "Ok"
         /\ frame[v].op = "read_current_read_all"
         /\ ret[v].current # EmptyBag /\ ret[v].value # <<>>

====
